---- MODULE Spec2Model ----
(***************************************************************************)
(* A model of the swift migration tools: migration/swift-migrate.py and    *)
(* migration/util.py.                                                      *)
(*                                                                         *)
(* Strings are modelled as sequences of one-character strings, so that the *)
(* regular expression HASH_PATTERN is computed character by character.    *)
(* A header that may be missing from a header dict is a set: {} when the   *)
(* key is missing, {v} when the dict holds the value v.                    *)
(* Byte counts beyond 2^31 are kept as a pair [gib, rem] meaning           *)
(* gib * 2^30 + rem with rem < 2^30.                                       *)
(***************************************************************************)
EXTENDS Integers, Sequences, FiniteSets, TLC

VARIABLES
    probe,          \* one call of check_migrate_object: its arguments and result
    plan,           \* one call of _get_tenants_group: its arguments and result
    src,            \* copy: the listing of the source container, with each object's headers
    tgt,            \* copy: the objects of the target container, name -> headers
    tgtc,           \* copy: whether the target container exists
    pc,             \* copy: the position of the worker in migrate_tenant / migrate_container
    idx,            \* copy: the index in the listing of the object being handled
    run,            \* copy: the number of the current run of the tool
    content,        \* copy: the audit content of the tenant in the current run
    written,        \* copy: for each object the tool has uploaded, how the last upload went
    faults,         \* copy: whether so far a store operation has failed, a transfer has
                    \*       corrupted data, or a DLO's segments were missing on the target
    tenants_group,  \* workers: the buckets of tenants, one per worker process
    act,            \* workers: args.act, "stat" or "copy"
    account,        \* workers: for each tenant the headers of its source account
    wk,             \* workers: for each worker its position, its tenant and its handles
    stats,          \* workers: the shared counters cons, objs and bytes
    tenant_usage,   \* workers: the shared map tenant name -> bytes used
    lock,           \* workers: the worker that holds the lock, 0 when it is free
    statted,        \* workers: the tenants whose source account stat has succeeded
    main,           \* workers: the position of main, "started" or "joined"
    action,         \* reconciliation: args.action
    ops,            \* reconciliation: the remote operations issued so far
    out,            \* reconciliation: the lines printed so far
    swift,          \* deleted-sweep: the migration side, container -> object names
    rgw,            \* deleted-sweep: the source side, region -> container -> object names
    todo,           \* deleted-sweep: the containers of the listing still to be handled
    spc,            \* deleted-sweep: the position of check_deleted
    region_conns,   \* duplicates: region -> the account behind its connection,
                    \*             container -> object name -> content
    user_roles,     \* duplicates: the roles the user holds in the tenant
    args_role,      \* duplicates: args.role
    dup_names,      \* duplicates: the container names found in both regions
    handled,        \* duplicates: the duplicate names the loop has finished
    cur,            \* duplicates: the name being renamed and the regions still to do
    dpc,            \* duplicates: the position of _check_duplicate
    mt,             \* one call of migrate_tenant: the containers of both stores, the
                    \*      position in the listing, the content and the requests
    wl              \* worker loops: for each worker its position in its bucket, the
                    \*      content of its last tenant, its file and the errors printed

copyVars == <<src, tgt, tgtc, pc, idx, run, content, written, faults>>

workVars == <<tenants_group, act, account, wk, stats, tenant_usage, lock,
              statted, main>>

reconVars == <<action, ops, out>>

sweepVars == <<swift, rgw, todo, spc>>

dupVars == <<region_conns, user_roles, args_role, dup_names, handled, cur, dpc>>

notCopy == <<probe, plan, workVars, reconVars, sweepVars, dupVars, mt, wl>>

notWork == <<probe, plan, copyVars, reconVars, sweepVars, dupVars, mt, wl>>

notDecide == <<plan, copyVars, workVars, reconVars, sweepVars, dupVars, mt, wl>>

notPlan == <<probe, copyVars, workVars, reconVars, sweepVars, dupVars, mt, wl>>

notSweep == <<probe, plan, copyVars, workVars, dupVars, mt, wl>>

notDup == <<probe, plan, copyVars, workVars, sweepVars, mt, wl>>

notTenant == <<probe, plan, copyVars, workVars, reconVars, sweepVars, dupVars, wl>>

notLoop == <<probe, plan, copyVars, workVars, reconVars, sweepVars, dupVars, mt>>

vars == <<probe, plan, copyVars, workVars, reconVars, sweepVars, dupVars, mt, wl>>

ReconIdle ==
    /\ action = "idle"
    /\ ops = {}
    /\ out = {}

SweepIdle ==
    /\ swift = << >>
    /\ rgw = << >>
    /\ todo = << >>
    /\ spc = "idle"

NoName == << >>

DupIdle ==
    /\ region_conns = << >>
    /\ user_roles = {}
    /\ args_role = "idle"
    /\ dup_names = {}
    /\ handled = {}
    /\ cur = [name |-> NoName, left |-> {}]
    /\ dpc = "idle"

WorkIdle ==
    /\ tenants_group = << >>
    /\ act = "idle"
    /\ account = << >>
    /\ wk = << >>
    /\ stats = << >>
    /\ tenant_usage = << >>
    /\ lock = 0
    /\ statted = {}
    /\ main = "idle"

CopyIdle ==
    /\ src = << >>
    /\ tgt = << >>
    /\ tgtc = FALSE
    /\ pc = "idle"
    /\ idx = 0
    /\ run = 0
    /\ content = << >>
    /\ written = << >>
    /\ faults = FALSE

Idle == [at |-> "idle"]

(***************************************************************************)
(* Python dict and string helpers                                          *)
(***************************************************************************)

EmptyDict == << >>

\* dict.get(key, default)
DictGet(h, k, default) == IF k \in DOMAIN h THEN h[k] ELSE default

\* the truth value of dict.get(key, False), the values being strings: the
\* key is there and its value is not the empty string
Truthy(h, k) == k \in DOMAIN h /\ h[k] # << >>

\* the dict {k: v} when o = {v}, the empty dict when o = {}
OptEntry(k, o) == IF o = {} THEN EmptyDict ELSE (k :> (CHOOSE v \in o : TRUE))

Opt(S) == {{}} \cup {{v} : v \in S}

\* the characters matched by \w among the characters the model uses
WordChars == {"a", "b", "1", "2"}

AllWord(s, i, j) == \A k \in i..j : s[k] \in WordChars

(***************************************************************************)
(* swift-migrate.py: constants                                             *)
(***************************************************************************)

OLD_HASH_HEADER == "x-object-meta-old-hash"

Bytes(g, r) == [gib |-> g, rem |-> r]

\* int(x) > int(y) on byte counts
BytesGt(x, y) == x.gib > y.gib \/ (x.gib = y.gib /\ x.rem > y.rem)

\* 5368709120 = 5 * 2^30
GB_5 == Bytes(5, 0)

\* HASH_PATTERN.match(s): re.match anchors the pattern \w+-\w+ at the start of s
\* only, so s matches as soon as some prefix of it does.
HASH_PATTERN_match(s) ==
    \E i \in 1..Len(s) :
        /\ AllWord(s, 1, i)
        /\ i + 2 <= Len(s)
        /\ s[i + 1] = "-"
        /\ s[i + 2] \in WordChars

(***************************************************************************)
(* The stores. A store maps the names of the objects of one container to   *)
(* their headers; a stat of an object yields a result dict.                *)
(***************************************************************************)

\* ETags that are whole-object MD5 digests
PlainHashes == { <<"a">>, <<"b">> }

\* ETags an S3 multipart upload leaves: <digest>-<part count>
MultipartHashes == { <<"a", "-", "1">>, <<"b", "-", "2">> }

\* a hash of which only a prefix has the multipart shape
OddHashes == { <<"a", "-", "1", "-", "2">> }

Hashes == PlainHashes \cup MultipartHashes \cup OddHashes

Sizes == { Bytes(0, 1024), GB_5, Bytes(5, 1), Bytes(10, 0) }

ManifestValues == { << >>, <<"s", "/", "p">> }

TrueStr == <<"T", "r", "u", "e">>

SloValues == { << >>, TrueStr }

ContentLengths == {0, 7}

\* the headers the stat of a source object returns: etag, content-length and,
\* when m, s, o are not {}, x-object-manifest, x-static-large-object and the
\* user metadata x-object-meta-old-hash
SrcHead(h, c, m, s, o) ==
    ("etag" :> h) @@ ("content-length" :> c)
        @@ OptEntry("x-object-manifest", m)
        @@ OptEntry("x-static-large-object", s)
        @@ OptEntry(OLD_HASH_HEADER, o)

\* the headers the stat of a target object returns
TgtHead(e, c, o) ==
    ("etag" :> e) @@ ("content-length" :> c) @@ OptEntry(OLD_HASH_HEADER, o)

\* list(client.stat(container=..., objects=[name]))[0]
StatObject(store, name) ==
    IF name \in DOMAIN store
    THEN [success |-> TRUE, headers |-> store[name]]
    ELSE [success |-> FALSE]

(***************************************************************************)
(* swift-migrate.py: check_migrate_object                                  *)
(* src_object is the listing entry, src_header the headers of the source   *)
(* stat, tgt_obj the result of the target stat. TRUE: migration is needed. *)
(***************************************************************************)

\* check_migrate_object without the multipart rule
check_migrate_object_no_oldhash(src_object, src_header, tgt_obj) ==
    IF ~tgt_obj.success THEN TRUE
    ELSE LET tgt_header == tgt_obj.headers IN
         IF Truthy(src_header, "x-object-manifest")
                 /\ src_header["content-length"] = tgt_header["content-length"]
           THEN FALSE
         ELSE IF tgt_header["etag"] = src_object.hash THEN FALSE
         ELSE TRUE

check_migrate_object(src_object, src_header, tgt_obj) ==
    IF ~tgt_obj.success THEN TRUE
    ELSE LET tgt_header == tgt_obj.headers IN
         IF HASH_PATTERN_match(src_object.hash)
               /\ DictGet(tgt_header, OLD_HASH_HEADER, << >>) = src_object.hash
           THEN FALSE
         ELSE IF Truthy(src_header, "x-object-manifest")
                 /\ src_header["content-length"] = tgt_header["content-length"]
           THEN FALSE
         ELSE IF tgt_header["etag"] = src_object.hash THEN FALSE
         ELSE TRUE

(***************************************************************************)
(* Specification SpecDecide: check_migrate_object applied to every source  *)
(* object and every target counterpart                                     *)
(***************************************************************************)

ProbeSources ==
    { [object |-> [name |-> "o1", hash |-> h, bytes |-> b],
       header |-> SrcHead(h, c, m, s, {})] :
        h \in Hashes, b \in Sizes, c \in ContentLengths,
        m \in Opt(ManifestValues), s \in Opt(SloValues) }

ProbeTargets ==
    { [success |-> FALSE] } \cup
    { [success |-> TRUE, headers |-> TgtHead(e, c, o)] :
        e \in PlainHashes, c \in ContentLengths, o \in Opt(Hashes \cup {<< >>}) }

DecideInit ==
    /\ probe \in [at : {"call"}, src : ProbeSources, tgt : ProbeTargets]
    /\ plan = Idle
    /\ CopyIdle
    /\ WorkIdle
    /\ ReconIdle
    /\ SweepIdle
    /\ DupIdle
    /\ mt = Idle
    /\ wl = Idle

\* the call returns
DecideReturn ==
    /\ probe.at = "call"
    /\ probe' = [at |-> "ret", src |-> probe.src, tgt |-> probe.tgt,
                 res |-> check_migrate_object(probe.src.object,
                                              probe.src.header, probe.tgt)]
    /\ UNCHANGED notDecide

DecideNext == DecideReturn

SpecDecide == DecideInit /\ [][DecideNext]_vars

(***************************************************************************)
(* The variants of an object as the specification classifies them: first   *)
(* match wins, a header counts by its presence, the hash by ^\w+-\w+$.     *)
(***************************************************************************)

FullMatch(s) ==
    \E i \in 1..Len(s) :
        /\ AllWord(s, 1, i)
        /\ i + 2 <= Len(s)
        /\ s[i + 1] = "-"
        /\ AllWord(s, i + 2, Len(s))

Variant(object, header) ==
    IF "x-object-manifest" \in DOMAIN header THEN "DLO"
    ELSE IF "x-static-large-object" \in DOMAIN header THEN "SLO"
    ELSE IF BytesGt(object.bytes, GB_5) THEN "SingleLarge"
    ELSE IF FullMatch(object.hash) THEN "S3Multipart"
    ELSE "Normal"

\* the target carries the header k with the value v
Carries(headers, k, v) == k \in DOMAIN headers /\ headers[k] = v

\* C3 as claimed: Transfer when the target is absent; otherwise Skip exactly
\* when (1) the source is S3Multipart and the target's x-object-meta-old-hash
\* equals the source hash, or (2) the source has x-object-manifest and the
\* content-lengths are equal, or (3) the target etag equals the source hash.
C3_AsClaimed ==
    probe.at = "ret" =>
        LET o == probe.src.object
            h == probe.src.header
        IN  /\ ~probe.tgt.success => probe.res = TRUE
            /\ probe.tgt.success =>
                 LET t == probe.tgt.headers IN
                 (probe.res = FALSE <=>
                    \/ Variant(o, h) = "S3Multipart"
                         /\ Carries(t, OLD_HASH_HEADER, o.hash)
                    \/ "x-object-manifest" \in DOMAIN h
                         /\ t["content-length"] = h["content-length"]
                    \/ t["etag"] = o.hash)

\* C3 amended: Transfer when the target is absent; otherwise Skip exactly when
\* (1) the source hash starts with a match of \w+-\w+, whatever the object's
\* size and manifest headers, and the target's x-object-meta-old-hash equals
\* the source hash, or (2) the source has a non-empty x-object-manifest and
\* the content-lengths are equal, or (3) the target etag equals the source
\* hash.
C3_SkipRule ==
    probe.at = "ret" =>
        LET o == probe.src.object
            h == probe.src.header
        IN  /\ ~probe.tgt.success => probe.res = TRUE
            /\ probe.tgt.success =>
                 LET t == probe.tgt.headers IN
                 (probe.res = FALSE <=>
                    \/ HASH_PATTERN_match(o.hash)
                         /\ Carries(t, OLD_HASH_HEADER, o.hash)
                    \/ /\ "x-object-manifest" \in DOMAIN h
                       /\ h["x-object-manifest"] # << >>
                       /\ t["content-length"] = h["content-length"]
                    \/ t["etag"] = o.hash)

\* an object over 5 GiB with a multipart hash, already migrated with the
\* old-hash header, is decided Skip
C3_Witness ==
    /\ probe.at = "ret"
    /\ probe.tgt.success
    /\ BytesGt(probe.src.object.bytes, GB_5)
    /\ probe.src.object.hash \in MultipartHashes
    /\ "x-object-manifest" \notin DOMAIN probe.src.header
    /\ Carries(probe.tgt.headers, OLD_HASH_HEADER, probe.src.object.hash)
    /\ probe.tgt.headers["etag"] # probe.src.object.hash
    /\ probe.res = FALSE

(***************************************************************************)
(* util.py: _chunks and _get_tenants_group                                 *)
(***************************************************************************)

\* what a call yields: a value, an exception, or the exit of the process
Return(v) == [st |-> "ret", val |-> v]

Raise(e) == [st |-> "raise", err |-> e]

Exit(code, printed) == [st |-> "exit", code |-> code, printed |-> printed]

Min(a, b) == IF a < b THEN a ELSE b

\* int(math.ceil(a / float(b))) for a >= 0, b >= 1
CeilDiv(a, b) == IF a % b = 0 THEN a \div b ELSE (a \div b) + 1

\* arr[i:j] for 0 <= i <= j, indices counted from 0 and clipped to the list
Slice(arr, i, j) == SubSeq(arr, i + 1, Min(j, Len(arr)))

\* _chunks with Python 2's integer division in place of the float division
_chunks_floor(arr, m) ==
    LET n == Len(arr) \div m IN
    IF n = 0 THEN Raise("ValueError")
    ELSE Return([k \in 1..CeilDiv(Len(arr), n) |->
                    Slice(arr, (k - 1) * n, (k - 1) * n + n)])

\* range(0, len, 0) raises ValueError: n is 0 exactly when arr is empty
_chunks(arr, m) ==
    LET n == CeilDiv(Len(arr), m) IN
    IF n = 0 THEN Raise("ValueError")
    ELSE Return([k \in 1..CeilDiv(Len(arr), n) |->
                    Slice(arr, (k - 1) * n, (k - 1) * n + n)])

Range(q) == {q[i] : i \in 1..Len(q)}

\* the elements of the set S in the iteration order `order`
InOrder(S, order) == SelectSeq(order, LAMBDA x : x \in S)

\* the filter without the check of the included names
actual_tnames_unchecked(tenants, args, order) ==
    LET keys == Range(tenants)
        Given(a) == a # {} /\ a # {<< >>}
        List(a) == CHOOSE l \in a : TRUE
    IN  IF Given(args.include_tenants) THEN Return(List(args.include_tenants))
        ELSE IF Given(args.exclude_tenants) THEN
            Return(InOrder(keys \ Range(List(args.exclude_tenants)), order))
        ELSE IF args.include_file # {} THEN Return(List(args.include_file))
        ELSE IF args.exclude_file # {} THEN
            Return(InOrder(keys \ Range(List(args.exclude_file)), order))
        ELSE Return(InOrder(keys, order))

\* tenants: the enabled tenants (by name, names being unique in the
\* directory); args: include_tenants, exclude_tenants, include_file and
\* exclude_file are {} for None and {names} when given (a file is given by
\* its lines), concurrency is a number; order: the iteration order of
\* Python's dict keys and sets, which the language leaves open.
\* actual_tnames is the list of names the filter leaves, or the exit.
actual_tnames(tenants, args, order) ==
    LET keys == Range(tenants)
        Given(a) == a # {} /\ a # {<< >>}
        List(a) == CHOOSE l \in a : TRUE
    IN  IF Given(args.include_tenants) THEN
            LET invalid_tenants == Range(List(args.include_tenants)) \ keys IN
            IF invalid_tenants # {} THEN Exit(1, invalid_tenants)
            ELSE Return(List(args.include_tenants))
        ELSE IF Given(args.exclude_tenants) THEN
            Return(InOrder(keys \ Range(List(args.exclude_tenants)), order))
        ELSE IF args.include_file # {} THEN
            LET invalid_tenants == Range(List(args.include_file)) \ keys IN
            IF invalid_tenants # {} THEN Exit(1, invalid_tenants)
            ELSE Return(List(args.include_file))
        ELSE IF args.exclude_file # {} THEN
            Return(InOrder(keys \ Range(List(args.exclude_file)), order))
        ELSE Return(InOrder(keys, order))

_get_tenants_group(tenants, args, multiprocess, order) ==
    LET names == actual_tnames(tenants, args, order) IN
    IF names.st = "exit" THEN names
    ELSE LET actual_tenants == names.val IN
         IF multiprocess THEN _chunks(actual_tenants, args.concurrency)
         ELSE Return(<<actual_tenants>>)

(***************************************************************************)
(* Specification SpecPlan: _get_tenants_group applied to every directory,  *)
(* filter and concurrency                                                  *)
(***************************************************************************)

NTenants == 5

MaxNames == 2

MaxConcurrency == 3

TenantNames == 1..NTenants

\* iteration orders of the tenant names: the rotations of the ascending and
\* of the descending order
Orders ==
    LET n == NTenants
        Up(r) == [i \in 1..n |-> ((i + r - 1) % n) + 1]
        Down(r) == [i \in 1..n |-> n - ((i + r - 1) % n)]
    IN  {Up(r) : r \in 0..(n - 1)} \cup {Down(r) : r \in 0..(n - 1)}

SeqsUpTo(S, n) == UNION {[1..k -> S] : k \in 0..n}

Args(i, e, f, x, c) ==
    [include_tenants |-> i, exclude_tenants |-> e, include_file |-> f,
     exclude_file |-> x, concurrency |-> c]

NameLists == SeqsUpTo(TenantNames, MaxNames)

\* at most one of the four filters is given (a mutually exclusive group)
PlanArgs ==
    UNION { {Args({}, {}, {}, {}, c)}
              \cup {Args({l}, {}, {}, {}, c) : l \in NameLists}
              \cup {Args({}, {l}, {}, {}, c) : l \in NameLists}
              \cup {Args({}, {}, {l}, {}, c) : l \in NameLists}
              \cup {Args({}, {}, {}, {l}, c) : l \in NameLists}
            : c \in 1..MaxConcurrency }

PlanInit ==
    /\ probe = Idle
    /\ CopyIdle
    /\ WorkIdle
    /\ ReconIdle
    /\ SweepIdle
    /\ DupIdle
    /\ mt = Idle
    /\ wl = Idle
    /\ \E n \in 0..NTenants, a \in PlanArgs, mp \in BOOLEAN :
         plan = [at |-> "call", tenants |-> [i \in 1..n |-> i], args |-> a,
                 multiprocess |-> mp]

\* the call returns, raises or exits
GetTenantsGroup ==
    /\ plan.at = "call"
    /\ \E order \in Orders :
         plan' = [at |-> "done", tenants |-> plan.tenants, args |-> plan.args,
                  multiprocess |-> plan.multiprocess, order |-> order,
                  res |-> _get_tenants_group(plan.tenants, plan.args,
                                             plan.multiprocess, order)]
    /\ UNCHANGED notPlan

PlanNext == GetTenantsGroup

SpecPlan == PlanInit /\ [][PlanNext]_vars

(***************************************************************************)
(* Tenant planning: the claims                                             *)
(***************************************************************************)

\* the list handed to _chunks in the finished call
PlanActual == actual_tnames(plan.tenants, plan.args, plan.order).val

PlanReturned == plan.at = "done" /\ plan.res.st = "ret"

\* the tenants the filter leaves, as a set
PlanFiltered ==
    LET a == plan.args
        keys == Range(plan.tenants)
        Names(o) == UNION {Range(l) : l \in o}
    IN  IF a.include_tenants \notin {{}, {<< >>}} THEN Names(a.include_tenants)
        ELSE IF a.exclude_tenants # {} THEN keys \ Names(a.exclude_tenants)
        ELSE IF a.include_file # {} THEN Names(a.include_file)
        ELSE IF a.exclude_file # {} THEN keys \ Names(a.exclude_file)
        ELSE keys

\* the number of times tenant t stands in bucket g
Occurrences(g, t) == Cardinality({i \in 1..Len(g) : g[i] = t})

\* C7 as claimed: the returned buckets partition the filtered tenant set: each
\* filtered tenant stands in exactly one bucket, exactly once, the union of
\* the buckets is the filtered set and any two buckets are disjoint.
C7_Partition ==
    PlanReturned =>
        LET g == plan.res.val IN
        /\ UNION {Range(g[k]) : k \in 1..Len(g)} = PlanFiltered
        /\ \A t \in PlanFiltered :
              \E k \in 1..Len(g) :
                 /\ Occurrences(g[k], t) = 1
                 /\ \A j \in 1..Len(g) : j # k => Occurrences(g[j], t) = 0
        /\ \A j, k \in 1..Len(g) : j # k => Range(g[j]) \cap Range(g[k]) = {}

Concat(g) ==
    LET F[k \in 0..Len(g)] == IF k = 0 THEN << >> ELSE F[k - 1] \o g[k]
    IN  F[Len(g)]

Spelling ==
    ("etag" :> <<"e", "t", "a", "g">>) @@
    ("content-length" :> <<"c", "o", "n", "t", "e", "n", "t", "-", "l", "e", "n", "g", "t", "h">>) @@
    ("x-object-manifest" :> <<"x", "-", "o", "b", "j", "e", "c", "t", "-", "m", "a", "n", "i", "f", "e", "s", "t">>) @@
    ("x-static-large-object" :> <<"x", "-", "s", "t", "a", "t", "i", "c", "-", "l", "a", "r", "g", "e", "-", "o", "b", "j", "e", "c", "t">>) @@
    ("x-object-meta-old-hash" :> <<"x", "-", "o", "b", "j", "e", "c", "t", "-", "m", "e", "t", "a", "-", "o", "l", "d", "-", "h", "a", "s", "h">>) @@
    ("x-object-meta-a" :> <<"x", "-", "o", "b", "j", "e", "c", "t", "-", "m", "e", "t", "a", "-", "a">>) @@
    ("X-Object-Meta-B" :> <<"X", "-", "O", "b", "j", "e", "c", "t", "-", "M", "e", "t", "a", "-", "B">>) @@
    ("x-object-metab" :> <<"x", "-", "o", "b", "j", "e", "c", "t", "-", "m", "e", "t", "a", "b">>)

\* str.lower() on the letters the header names hold
lower(q) ==
    LET low == ("X" :> "x") @@ ("O" :> "o") @@ ("M" :> "m") @@ ("B" :> "b") IN
    [i \in 1..Len(q) |-> IF q[i] \in DOMAIN low THEN low[q[i]] ELSE q[i]]

\* str.startswith
startswith(q, prefix) ==
    Len(q) >= Len(prefix) /\ SubSeq(q, 1, Len(prefix)) = prefix

META_PREFIX == <<"x", "-", "o", "b", "j", "e", "c", "t", "-", "m", "e", "t", "a", "-">>

\* the user metadata keys among the header names the model uses
\* (m_key.lower().startswith('x-object-meta-'))
UserMetaKeys ==
    {k \in DOMAIN Spelling : startswith(lower(Spelling[k]), META_PREFIX)}

\* some enumeration of the finite set S (the iteration order of a dict)
SeqOf(S) == CHOOSE q \in [1..Cardinality(S) -> S] : Range(q) = S

\* get_object_user_meta without the lower() of line 278
get_object_user_meta_as_spelled(object_header) ==
    LET keys == SeqOf({k \in DOMAIN object_header :
                         startswith(Spelling[k], META_PREFIX)}) IN
    [i \in 1..Len(keys) |-> <<keys[i], object_header[keys[i]]>>]

\* the list of 'key:value' strings, as <<key, value>> pairs
get_object_user_meta(object_header) ==
    LET keys == SeqOf({k \in DOMAIN object_header : k \in UserMetaKeys}) IN
    [i \in 1..Len(keys) |-> <<keys[i], object_header[keys[i]]>>]

\* migrate_object: the header_list handed to the upload
header_list(src_object, src_head) ==
    (IF HASH_PATTERN_match(src_object.hash)
     THEN << <<OLD_HASH_HEADER, src_object.hash>> >> ELSE << >>)
    \o get_object_user_meta(src_head)

\* options={'header': list}: the client turns the list of 'key:value' strings
\* into the dict of request headers, entry after entry, so that of two
\* entries with one key the later one stays
UploadHeaders(list) ==
    LET F[i \in 0..Len(list)] ==
            IF i = 0 THEN EmptyDict
            ELSE (list[i][1] :> list[i][2]) @@ F[i - 1]
    IN  F[Len(list)]

\* the headers of an object the target stores after a PUT: its etag, its
\* content-length and the metadata headers of the request
Stored(etag, clen, headers) ==
    ("etag" :> etag) @@ ("content-length" :> clen) @@ headers

\* the etag of an object that is a manifest over segments (a DLO, or the
\* object a segmented upload leaves): a digest over the segments' digests,
\* not the digest of the content
ManifestEtag == <<"2">>

\* what a handler asks of the stores: the objects it downloads from the
\* source, and the one upload to the target with its headers and its body
Transfer(downloads, sent, body, segmented) ==
    [downloads |-> downloads, sent |-> sent, body |-> body,
     segmented |-> segmented]

\* migrate_DLO sending the user metadata as migrate_object does
migrate_DLO_with_meta(src_object, src_head) ==
    Transfer({},
             UploadHeaders(<< <<"x-object-manifest", src_head["x-object-manifest"]>> >>
                           \o get_object_user_meta(src_head)),
             "none", FALSE)

\* migrate_DLO: SwiftUploadObject(None, ...) with the one header
migrate_DLO(src_object, src_head) ==
    Transfer({},
             UploadHeaders(<< <<"x-object-manifest", src_head["x-object-manifest"]>> >>),
             "none", FALSE)

\* migrate_SLO: the object is downloaded to a temporary file and uploaded
migrate_SLO(src_object, src_head) ==
    Transfer({src_object.name},
             UploadHeaders(<< <<"x-static-large-object", TrueStr>> >>),
             "content", FALSE)

\* migrate_object: the object is downloaded and uploaded, in segments when
\* it is over 5 GiB
migrate_object(src_object, src_head) ==
    Transfer({src_object.name},
             UploadHeaders(header_list(src_object, src_head)),
             "content", BytesGt(src_object.bytes, GB_5))

\* check_migrate_after with the comparison of the hashes left out
check_migrate_after_no_compare(src_object, tgt_obj, is_dlo) ==
    IF ~tgt_obj.success THEN Raise("stat error") ELSE Return(TRUE)

\* check_migrate_after, after its first content.append: it raises or returns
check_migrate_after(src_object, tgt_obj, is_dlo) ==
    IF ~tgt_obj.success THEN Raise("stat error")
    ELSE IF ~is_dlo
            /\ ~Truthy(tgt_obj.headers, OLD_HASH_HEADER)
            /\ tgt_obj.headers["etag"] # src_object.hash
         THEN Raise("src and target objects have different hashes.")
         ELSE Return(TRUE)

(***************************************************************************)
(* Specification SpecCopy: the tool is run, and run again, with act=copy   *)
(* on a tenant with one container; the source does not change.             *)
(***************************************************************************)

NObjs == 2

MaxRuns == 2

KB == Bytes(0, 1024)

\* a source object: its listing entry (name, hash, bytes), the headers of its
\* stat (head) and the MD5 digest of its content (md5)
Obj(h, b, md5, c, m, s, o) ==
    [hash |-> h, bytes |-> b, md5 |-> md5, head |-> SrcHead(h, c, m, s, o)]

SrcKinds ==
    { Obj(<<"a">>, KB, <<"a">>, 7, {}, {}, {}),
      Obj(<<"a">>, KB, <<"a">>, 7, {}, {}, {<<"b", "-", "2">>}),
      Obj(<<"a", "-", "1">>, KB, <<"b">>, 7, {}, {}, {}),
      Obj(<<"a", "-", "1">>, KB, <<"b">>, 7, {}, {}, {<<"b", "-", "2">>}),
      Obj(<<"a", "-", "1">>, Bytes(10, 0), <<"b">>, 7, {}, {}, {}),
      Obj(<<"a">>, Bytes(0, 0), <<"a">>, 7, {<<"s", "/", "p">>}, {}, {}),
      Obj(<<"a">>, KB, <<"b">>, 7, {}, {TrueStr}, {}) }

CopyInit ==
    /\ probe = Idle
    /\ plan = Idle
    /\ WorkIdle
    /\ ReconIdle
    /\ SweepIdle
    /\ DupIdle
    /\ mt = Idle
    /\ wl = Idle
    /\ \E kinds \in [1..NObjs -> SrcKinds] :
          src = [i \in 1..NObjs |-> [name |-> i] @@ kinds[i]]
    /\ tgt = EmptyDict
    /\ tgtc = FALSE
    /\ pc = "tenant"
    /\ idx = 0
    /\ run = 1
    /\ content = << >>
    /\ written = EmptyDict
    /\ faults = FALSE

Log(line) == content' = Append(content, line)

\* the handling of the current object is over: on to the next one
NextObject == idx' = idx + 1 /\ pc' = "list"

\* the except clause of migrate_container
Failed(notes, reason) ==
    /\ content' = content \o notes
                      \o << <<"..failed. Reason", src[idx].name, reason>> >>
    /\ NextObject

\* migrate_tenant: the target container exists
ExistingContainer ==
    /\ pc = "tenant"
    /\ tgtc
    /\ Log(<<"existing container">>)
    /\ pc' = "list"
    /\ idx' = 1
    /\ UNCHANGED <<notCopy, src, tgt, tgtc, run, written, faults>>

\* migrate_tenant: the target container is missing and the post creates it
CreateContainer ==
    /\ pc = "tenant"
    /\ ~tgtc
    /\ content' = content \o << <<"creating container">>, <<"ok">> >>
    /\ tgtc' = TRUE
    /\ pc' = "list"
    /\ idx' = 1
    /\ UNCHANGED <<notCopy, src, tgt, run, written, faults>>

\* migrate_tenant: the post raises SwiftError; the container is passed over
CreateContainerFails ==
    /\ pc = "tenant"
    /\ ~tgtc
    /\ content' = content \o << <<"creating container">>, <<"failed. Reason">> >>
    /\ pc' = "end"
    /\ faults' = TRUE
    /\ UNCHANGED <<notCopy, src, tgt, tgtc, idx, run, written>>

\* migrate_container: a page of the listing reports an error
ListPageError ==
    /\ pc = "list"
    /\ idx = 1
    /\ pc' = "PageError"
    /\ faults' = TRUE
    /\ UNCHANGED <<notCopy, src, tgt, tgtc, idx, run, content, written>>

\* migrate_container: the listing is exhausted
ListEnd ==
    /\ pc = "list"
    /\ idx > Len(src)
    /\ pc' = "end"
    /\ UNCHANGED <<notCopy, src, tgt, tgtc, idx, run, content, written, faults>>

\* migrate_container: the stat of the next source object succeeds
SrcStat ==
    /\ pc = "list"
    /\ idx <= Len(src)
    /\ pc' = "decide"
    /\ UNCHANGED <<notCopy, src, tgt, tgtc, idx, run, content, written, faults>>

\* migrate_container: the stat of the next source object fails; its result
\* holds no 'headers' and src_obj['headers'] raises KeyError outside the try
SrcStatFails ==
    /\ pc = "list"
    /\ idx <= Len(src)
    /\ pc' = "KeyError"
    /\ faults' = TRUE
    /\ UNCHANGED <<notCopy, src, tgt, tgtc, idx, run, content, written>>

\* a stat of the target object: its true result, or a failure of the request
TargetStats(name) == {StatObject(tgt, name), [success |-> FALSE]}

\* migrate_container: check_migrate_object decides Skip or Transfer
Decide ==
    /\ pc = "decide"
    /\ \E tgt_obj \in TargetStats(src[idx].name) :
         /\ faults' = (faults \/ tgt_obj # StatObject(tgt, src[idx].name))
         /\ IF check_migrate_object(src[idx], src[idx].head, tgt_obj)
            THEN /\ Log(<<"creating object", src[idx].name>>)
                 /\ pc' = "migrate"
                 /\ UNCHANGED idx
            ELSE /\ Log(<<"existing object", src[idx].name>>)
                 /\ NextObject
    /\ UNCHANGED <<notCopy, src, tgt, tgtc, run, written>>

\* migrate_object notes the segmented upload of an object over 5 GiB in the
\* content before it downloads
LargeObjectNote(o) ==
    IF /\ ~Truthy(o.head, "x-object-manifest")
       /\ ~Truthy(o.head, "x-static-large-object")
       /\ BytesGt(o.bytes, GB_5)
    THEN << <<"..[large object] download...split...upload">> >>
    ELSE << >>

\* the target stores the uploaded object under the current name
Put(by, headers, lines) ==
    /\ tgt' = (src[idx].name :> headers) @@ tgt
    /\ written' = (src[idx].name :> [by |-> by, verify |-> "pending"])
                      @@ written
    /\ pc' = "verify"
    /\ content' = content \o lines
    /\ UNCHANGED <<notCopy, src, tgtc, idx, run>>

\* the download or the upload of the current object raises
TransferFails ==
    /\ pc = "migrate"
    /\ Failed(LargeObjectNote(src[idx]), "transfer error")
    /\ faults' = TRUE
    /\ UNCHANGED <<notCopy, src, tgt, tgtc, run, written>>

\* migrate_DLO: a zero-byte object with the source's x-object-manifest; the
\* content-length the target reports for it is the total of the segments the
\* target holds under the manifest's prefix
MigrateDLO ==
    /\ pc = "migrate"
    /\ Truthy(src[idx].head, "x-object-manifest")
    /\ \E clen \in ContentLengths :
         /\ Put("migrate_DLO",
                Stored(ManifestEtag, clen,
                       migrate_DLO(src[idx], src[idx].head).sent),
                << >>)
         /\ faults' = (faults \/ clen # src[idx].head["content-length"])

\* migrate_SLO: the whole body is downloaded to a temporary file and
\* uploaded with x-static-large-object:True; the etag is the digest of what
\* arrived
MigrateSLO ==
    /\ pc = "migrate"
    /\ ~Truthy(src[idx].head, "x-object-manifest")
    /\ Truthy(src[idx].head, "x-static-large-object")
    /\ \E etag \in PlainHashes :
         /\ Put("migrate_SLO",
                Stored(etag, src[idx].head["content-length"],
                       migrate_SLO(src[idx], src[idx].head).sent),
                << >>)
         /\ faults' = (faults \/ etag # src[idx].md5)

\* migrate_object: an object over 5 GiB is uploaded in segments, which the
\* content notes, and its etag is that of the manifest; any other is streamed
\* through and its etag is the digest of what arrived
MigrateObject ==
    /\ pc = "migrate"
    /\ ~Truthy(src[idx].head, "x-object-manifest")
    /\ ~Truthy(src[idx].head, "x-static-large-object")
    /\ LET single_large_object == BytesGt(src[idx].bytes, GB_5) IN
       \E etag \in IF single_large_object THEN {ManifestEtag} ELSE PlainHashes :
         /\ Put("migrate_object",
                Stored(etag, src[idx].head["content-length"],
                       migrate_object(src[idx], src[idx].head).sent),
                LargeObjectNote(src[idx]))
         /\ faults' = (faults \/ (~single_large_object /\ etag # src[idx].md5))

\* migrate_container: check_migrate_after, and the except clause around it
CheckMigrateAfter ==
    /\ pc = "verify"
    /\ \E tgt_obj \in TargetStats(src[idx].name) :
         LET r == check_migrate_after(src[idx], tgt_obj,
                                      Truthy(src[idx].head, "x-object-manifest"))
         IN  /\ faults' = (faults \/ ~tgt_obj.success)
             /\ IF r.st = "raise"
                THEN /\ content' = content \o
                           << <<"..ok..checking">>,
                              <<"..failed. Reason", src[idx].name, r.err>> >>
                     /\ written' = [written EXCEPT ![src[idx].name].verify = "failed"]
                ELSE /\ content' = content \o << <<"..ok..checking">>, <<"..ok">> >>
                     /\ written' = [written EXCEPT ![src[idx].name].verify = "ok"]
             /\ NextObject
    /\ UNCHANGED <<notCopy, src, tgt, tgtc, run>>

\* the worker has written the content to its file and ended; the tool is run
\* again on the same source
RunAgain ==
    /\ pc \in {"end", "KeyError", "PageError"}
    /\ run < MaxRuns
    /\ run' = run + 1
    /\ pc' = "tenant"
    /\ idx' = 0
    /\ content' = << >>
    /\ UNCHANGED <<notCopy, src, tgt, tgtc, written, faults>>

CopyNext ==
    \/ ExistingContainer
    \/ CreateContainer
    \/ CreateContainerFails
    \/ ListPageError
    \/ ListEnd
    \/ SrcStat
    \/ SrcStatFails
    \/ Decide
    \/ TransferFails
    \/ MigrateDLO
    \/ MigrateSLO
    \/ MigrateObject
    \/ CheckMigrateAfter
    \/ RunAgain

SpecCopy == CopyInit /\ [][CopyNext]_vars

(***************************************************************************)
(* The copy: the claims                                                    *)
(***************************************************************************)

\* the lines of the audit content that record a write to the target
WriteLines == {"creating object", "creating container"}

\* C1 as claimed, in the case most favourable to it (no store operation has
\* failed, no transfer has corrupted data and no segment is missing): in the
\* second run on an unchanged source every object is decided Skip and
\* nothing is written to the target, neither an object nor the container.
C1_SecondRunSkipsAll ==
    (run = 2 /\ ~faults) =>
        \A i \in 1..Len(content) : content[i][1] \notin WriteLines

\* C2 as claimed, in the same favourable case: an object whose upload
\* succeeded and whose verification passed in an earlier run, source and
\* target unchanged since, is not decided Transfer in a later run.
C2_VerifiedIsSkipped ==
    (run > 1 /\ pc = "migrate" /\ ~faults) =>
        ~(/\ src[idx].name \in DOMAIN written
          /\ written[src[idx].name].verify = "ok")

\* C4 as claimed: every object the tool has uploaded whose source hash matches
\* ^\w+-\w+$ carries x-object-meta-old-hash equal to the source hash on the
\* target, whatever user metadata the source object has.
C4_OldHashIsSourceHash ==
    \A n \in DOMAIN written :
        FullMatch(src[n].hash) => Carries(tgt[n], OLD_HASH_HEADER, src[n].hash)

\* C5 as claimed: in every reachable state, every object written from a
\* Normal source has a target etag equal to the source hash unless the target
\* carries x-object-meta-old-hash, also when its verification has reported a
\* mismatch.
C5_NormalEtagAlways ==
    \A n \in DOMAIN written :
        Variant(src[n], src[n].head) = "Normal"
            => (tgt[n]["etag"] = src[n].hash \/ OLD_HASH_HEADER \in DOMAIN tgt[n])

\* C5 amended: every object written from a Normal source whose post-upload
\* verification passed has a target etag equal to the source hash unless the
\* target carries x-object-meta-old-hash.
C5_NormalEtagWhenVerified ==
    \A n \in DOMAIN written :
        (Variant(src[n], src[n].head) = "Normal" /\ written[n].verify = "ok")
            => (tgt[n]["etag"] = src[n].hash \/ OLD_HASH_HEADER \in DOMAIN tgt[n])

\* a Normal object has been uploaded and verified, and another one has been
\* uploaded corrupted and its verification has reported the mismatch
C5_Witness ==
    /\ \E n \in DOMAIN written :
          /\ Variant(src[n], src[n].head) = "Normal"
          /\ written[n].verify = "ok"
          /\ tgt[n]["etag"] = src[n].hash
          /\ OLD_HASH_HEADER \notin DOMAIN tgt[n]
    /\ \E n \in DOMAIN written :
          /\ Variant(src[n], src[n].head) = "Normal"
          /\ written[n].verify = "failed"
          /\ tgt[n]["etag"] # src[n].hash

\* C9 as claimed: no error raised while one object is handled (source stat,
\* skip decision, download, upload, verification) leaves migrate_container:
\* the worker stays in the loop over the container's objects.
C9_ObjectErrorsAreCaught == pc # "KeyError"

(***************************************************************************)
(* Specification SpecWorkers: main starts one worker process per bucket;   *)
(* each worker handles the tenants of its bucket one after the other       *)
(***************************************************************************)

WorkTenants == 3

WorkNames == 2

WorkConcurrency == 2

\* the counters of stats and the account headers they are fed from
Fields ==
    << [stat |-> "cons", header |-> "x-account-container-count"],
       [stat |-> "objs", header |-> "x-account-object-count"],
       [stat |-> "bytes", header |-> "x-account-bytes-used"] >>

AccountHeader(cons, objs, bytes) ==
    ("x-account-container-count" :> cons) @@ ("x-account-object-count" :> objs)
        @@ ("x-account-bytes-used" :> bytes)

\* an empty account and one that holds data
AccountHeaders == {AccountHeader(0, 0, 0), AccountHeader(1, 2, 4)}

\* the command line of swift-migrate.py has --include-tenants and
\* --exclude-tenants only
WorkArgs ==
    LET lists == SeqsUpTo(1..WorkTenants, WorkNames) \ {<< >>} IN
    UNION { {Args({l}, {}, {}, {}, c) : l \in lists}
              \cup {Args({}, {l}, {}, {}, c) : l \in lists}
            : c \in 1..WorkConcurrency }

\* util.check_user_access(args, key, multiprocess=True): the tenant planner,
\* which filters the enabled tenants and partitions them with
\* _get_tenants_group
check_user_access(tenants, args, multiprocess, order) ==
    _get_tenants_group(tenants, args, multiprocess, order)

\* main up to the start of the processes; worker w of the model is the
\* process with id w - 1
WorkInit ==
    /\ probe = Idle
    /\ plan = Idle
    /\ CopyIdle
    /\ ReconIdle
    /\ SweepIdle
    /\ DupIdle
    /\ mt = Idle
    /\ wl = Idle
    /\ \E a \in WorkArgs, order \in Orders :
         LET res == check_user_access([i \in 1..WorkTenants |-> i], a, TRUE, order)
         IN  /\ res.st = "ret"
             /\ tenants_group = res.val
             /\ wk = [w \in 1..Len(res.val) |->
                        [pc |-> "tenant", i |-> 0, f |-> 0, tmp |-> 0,
                         open |-> {}, err |-> FALSE]]
    /\ act \in {"stat", "copy"}
    /\ account \in [1..WorkTenants -> AccountHeaders]
    /\ stats = ("cons" :> 0) @@ ("objs" :> 0) @@ ("bytes" :> 0)
    /\ tenant_usage = EmptyDict
    /\ lock = 0
    /\ statted = {}
    /\ main = "started"

\* the tenant worker w is handling
Tenant(w) == tenants_group[w][wk[w].i]

\* the handles _get_service_clients creates for the i-th tenant of a bucket
_get_service_clients(i, args_act) ==
    {<<i, "src_srvclient">>}
        \cup (IF args_act = "copy" THEN {<<i, "tgt_srvclient">>} ELSE {})

\* for tenant in tenants: the next tenant of the bucket, and its handles
StartTenant ==
    \E w \in DOMAIN wk :
      /\ wk[w].pc = "tenant"
      /\ wk[w].i < Len(tenants_group[w])
      /\ wk' = [wk EXCEPT ![w] =
                  [@ EXCEPT !.pc = "stat", !.i = @ + 1, !.err = FALSE,
                            !.open = @ \cup _get_service_clients(wk[w].i + 1, act)]]
      /\ UNCHANGED <<notWork, tenants_group, act, account, stats,
                     tenant_usage, lock, statted, main>>

\* with src_srvclient: the account stat succeeds
AccountStat ==
    \E w \in DOMAIN wk :
      /\ wk[w].pc = "stat"
      /\ statted' = statted \cup {Tenant(w)}
      /\ wk' = [wk EXCEPT ![w] = [@ EXCEPT !.pc = "usage"]]
      /\ UNCHANGED <<notWork, tenants_group, act, account, stats,
                     tenant_usage, lock, main>>

\* the account stat raises: the with block releases src_srvclient, the
\* except clause prints the error
AccountStatFails ==
    \E w \in DOMAIN wk :
      /\ wk[w].pc = "stat"
      /\ wk' = [wk EXCEPT ![w] =
                  [@ EXCEPT !.pc = "finally", !.err = TRUE,
                            !.open = @ \ {<<wk[w].i, "src_srvclient">>}]]
      /\ UNCHANGED <<notWork, tenants_group, act, account, stats,
                     tenant_usage, lock, statted, main>>

\* tenant_usage[tenant.name] = int(account['x-account-bytes-used'])
WriteUsage ==
    \E w \in DOMAIN wk :
      /\ wk[w].pc = "usage"
      /\ tenant_usage' = (Tenant(w) :> account[Tenant(w)]["x-account-bytes-used"])
                            @@ tenant_usage
      /\ wk' = [wk EXCEPT ![w] = [@ EXCEPT !.pc = "lock"]]
      /\ UNCHANGED <<notWork, tenants_group, act, account, stats,
                     lock, statted, main>>

\* with lock: the lock is taken when it is free
Acquire ==
    \E w \in DOMAIN wk :
      /\ wk[w].pc = "lock"
      /\ lock = 0
      /\ lock' = w
      /\ wk' = [wk EXCEPT ![w] = [@ EXCEPT !.pc = "read", !.f = 1]]
      /\ UNCHANGED <<notWork, tenants_group, act, account, stats,
                     tenant_usage, statted, main>>

\* stats[k] += v reads the counter from the manager's dict ...
ReadStat ==
    \E w \in DOMAIN wk :
      /\ wk[w].pc = "read"
      /\ wk' = [wk EXCEPT ![w] =
                  [@ EXCEPT !.pc = "write", !.tmp = stats[Fields[wk[w].f].stat]]]
      /\ UNCHANGED <<notWork, tenants_group, act, account, stats,
                     tenant_usage, lock, statted, main>>

\* ... and writes the sum back
WriteStat ==
    \E w \in DOMAIN wk :
      /\ wk[w].pc = "write"
      /\ LET fld == Fields[wk[w].f] IN
           stats' = [stats EXCEPT ![fld.stat] =
                        wk[w].tmp + account[Tenant(w)][fld.header]]
      /\ wk' = [wk EXCEPT ![w] =
                  IF wk[w].f < Len(Fields)
                  THEN [@ EXCEPT !.pc = "read", !.f = @ + 1]
                  ELSE [@ EXCEPT !.pc = "unlock", !.f = 0]]
      /\ UNCHANGED <<notWork, tenants_group, act, account,
                     tenant_usage, lock, statted, main>>

\* the end of the with lock block
Release ==
    \E w \in DOMAIN wk :
      /\ wk[w].pc = "unlock"
      /\ lock' = 0
      /\ wk' = [wk EXCEPT ![w] = [@ EXCEPT !.pc = "act"]]
      /\ UNCHANGED <<notWork, tenants_group, act, account, stats,
                     tenant_usage, statted, main>>

\* args.act == 'stat': stat_tenant returns or raises, and the with block
\* releases src_srvclient
StatTenant ==
    \E w \in DOMAIN wk, raised \in BOOLEAN :
      /\ wk[w].pc = "act"
      /\ act = "stat"
      /\ wk' = [wk EXCEPT ![w] =
                  [@ EXCEPT !.pc = "finally", !.err = raised,
                            !.open = @ \ {<<wk[w].i, "src_srvclient">>}]]
      /\ UNCHANGED <<notWork, tenants_group, act, account, stats,
                     tenant_usage, lock, statted, main>>

\* args.act == 'copy': migrate_tenant returns or raises inside
\* with tgt_srvclient, and both with blocks release their handle
MigrateTenant ==
    \E w \in DOMAIN wk, raised \in BOOLEAN :
      /\ wk[w].pc = "act"
      /\ act = "copy"
      /\ wk' = [wk EXCEPT ![w] =
                  [@ EXCEPT !.pc = "finally", !.err = raised,
                            !.open = @ \ {<<wk[w].i, "tgt_srvclient">>,
                                          <<wk[w].i, "src_srvclient">>}]]
      /\ UNCHANGED <<notWork, tenants_group, act, account, stats,
                     tenant_usage, lock, statted, main>>

\* finally: the content is written to the worker's file, and the loop goes on
Finally ==
    \E w \in DOMAIN wk :
      /\ wk[w].pc = "finally"
      /\ wk' = [wk EXCEPT ![w] = [@ EXCEPT !.pc = "tenant"]]
      /\ UNCHANGED <<notWork, tenants_group, act, account, stats,
                     tenant_usage, lock, statted, main>>

\* the bucket is exhausted: the process ends
WorkerEnds ==
    \E w \in DOMAIN wk :
      /\ wk[w].pc = "tenant"
      /\ wk[w].i = Len(tenants_group[w])
      /\ wk' = [wk EXCEPT ![w] = [@ EXCEPT !.pc = "done"]]
      /\ UNCHANGED <<notWork, tenants_group, act, account, stats,
                     tenant_usage, lock, statted, main>>

\* for p in jobs: p.join(), after which main prints the totals
Join ==
    /\ main = "started"
    /\ \A w \in DOMAIN wk : wk[w].pc = "done"
    /\ main' = "joined"
    /\ UNCHANGED <<notWork, tenants_group, act, account, wk, stats,
                   tenant_usage, lock, statted>>

WorkNext ==
    \/ StartTenant
    \/ AccountStat
    \/ AccountStatFails
    \/ WriteUsage
    \/ Acquire
    \/ ReadStat
    \/ WriteStat
    \/ Release
    \/ StatTenant
    \/ MigrateTenant
    \/ Finally
    \/ WorkerEnds
    \/ Join

SpecWorkers == WorkInit /\ [][WorkNext]_vars

(***************************************************************************)
(* The workers: the claims                                                 *)
(***************************************************************************)

RECURSIVE SumOver(_, _)
\* the sum of f[x] over the x of the finite set S
SumOver(S, f) ==
    IF S = {} THEN 0
    ELSE LET x == CHOOSE y \in S : TRUE IN f[x] + SumOver(S \ {x}, f)

\* the totals the claim promises for the counter fld
TotalsAgree(fld) ==
    stats[fld.stat] = SumOver(statted, [t \in statted |-> account[t][fld.header]])

DistinctTenants ==
    \A w1, w2 \in DOMAIN tenants_group :
        \A i1 \in 1..Len(tenants_group[w1]), i2 \in 1..Len(tenants_group[w2]) :
            tenants_group[w1][i1] = tenants_group[w2][i2] => (w1 = w2 /\ i1 = i2)

\* The totals of C6 when no tenant is in the buckets twice: under the lock no
\* increment is lost, whatever the interleaving.
TotalsOnDistinctTenants ==
    (main = "joined" /\ DistinctTenants) =>
        /\ \A k \in 1..Len(Fields) : TotalsAgree(Fields[k])
        /\ stats["bytes"] = SumOver(DOMAIN tenant_usage, tenant_usage)

\* C10 as claimed: when a worker moves on to the next tenant, or ends, every
\* client handle it has created is released, on every exit path.
C10_HandlesReleased ==
    \A w \in DOMAIN wk : wk[w].pc \in {"tenant", "done"} => wk[w].open = {}

(***************************************************************************)
(* Specification SpecDeleted: swift-check-deleted.py, check_deleted on one *)
(* tenant: the containers and objects of the migration side that the       *)
(* source regions no longer have are reported, or deleted                  *)
(***************************************************************************)

ENV_REGIONS ==
    [preprod |-> <<"test-1">>, prod |-> <<"nz-por-1", "nz_wlg_2">>]

SEGMENTS == <<"_", "s", "e", "g", "m", "e", "n", "t", "s">>

\* s.startswith(suffix) in the place of s.endswith(suffix)
endswith_as_startswith(s, suffix) ==
    /\ Len(s) >= Len(suffix)
    /\ SubSeq(s, 1, Len(suffix)) = suffix

\* s.endswith(suffix)
endswith(s, suffix) ==
    /\ Len(s) >= Len(suffix)
    /\ SubSeq(s, Len(s) - Len(suffix) + 1, Len(s)) = suffix

\* the container names of the model, in the order of a listing
ContainerOrder == << <<"o", "l", "d">>, <<"o", "l", "d">> \o SEGMENTS >>

ContainerNames == Range(ContainerOrder)

ObjNames == {"o1", "o2"}

\* an account: its containers, each with the names of its objects
Stores == UNION {[D -> SUBSET ObjNames] : D \in SUBSET ContainerNames}

SweepInit ==
    /\ probe = Idle
    /\ plan = Idle
    /\ CopyIdle
    /\ WorkIdle
    /\ DupIdle
    /\ mt = Idle
    /\ wl = Idle
    /\ action \in {"report", "delete"}
    /\ ops = {}
    /\ out = {}
    /\ swift \in Stores
    /\ \E env \in DOMAIN ENV_REGIONS : rgw \in [Range(ENV_REGIONS[env]) -> Stores]
    /\ todo = << >>
    /\ spc = "list"

\* a remote operation: its kind, the account it is sent to (the migration
\* side "swift" or a source region), the container and the objects it names
Op(kind, on, cname, objects) ==
    [op |-> kind, on |-> on, container |-> cname, objects |-> objects]

\* except Exception as e: print('...Error') in check_deleted
SweepError ==
    /\ out' = out \cup {<<"...Error">>}
    /\ spc' = "done"

\* util.get_all_containers(swift_client): the listing of the migration side
GetAllContainers ==
    /\ spc = "list"
    /\ ops' = ops \cup {Op("list", "swift", << >>, {})}
    /\ todo' = InOrder(DOMAIN swift, ContainerOrder)
    /\ spc' = "loop"
    /\ UNCHANGED <<notSweep, action, out, swift, rgw>>

\* util.get_all_containers raises on a page that reports an error
GetAllContainersFails ==
    /\ spc = "list"
    /\ ops' = ops \cup {Op("list", "swift", << >>, {})}
    /\ SweepError
    /\ UNCHANGED <<notSweep, action, swift, rgw, todo>>

\* the orders in which six.iteritems(rgw_clients) may give the regions
RegionOrders ==
    {q \in [1..Cardinality(DOMAIN rgw) -> DOMAIN rgw] :
        \A i, j \in DOMAIN q : q[i] = q[j] => i = j}

\* the position in the order q of the first region whose stat of the
\* container succeeds, 0 when there is none
FirstWith(cname, q) ==
    LET hits == {i \in DOMAIN q : cname \in DOMAIN rgw[q[i]]} IN
    IF hits = {} THEN 0 ELSE CHOOSE i \in hits : \A j \in hits : i <= j

\* the stats of the container the loop over the regions issues
RegionStats(cname, q) ==
    LET k == FirstWith(cname, q)
        last == IF k = 0 THEN Len(q) ELSE k
    IN  {Op("stat", q[i], cname, {}) : i \in 1..last}

\* check_container: a container for segments is passed over
SegmentsContainer ==
    /\ spc = "loop"
    /\ todo # << >>
    /\ endswith(Head(todo), SEGMENTS)
    /\ todo' = Tail(todo)
    /\ UNCHANGED <<notSweep, action, ops, out, swift, rgw, spc>>

\* check_container: no region has the container; it is reported and, with
\* action delete, util.delete_container deletes it or raises
NonexistentContainer ==
    /\ spc = "loop"
    /\ todo # << >>
    /\ LET cname == Head(todo) IN
       /\ ~endswith(cname, SEGMENTS)
       /\ \E q \in RegionOrders :
            /\ FirstWith(cname, q) = 0
            /\ LET found == {<<"......FOUND nonexistent container", cname>>}
                   seen == RegionStats(cname, q)
               IN  IF action = "delete"
                   THEN /\ ops' = ops \cup seen
                                      \cup {Op("delete", "swift", cname, {})}
                        /\ \/ /\ swift' = [c \in DOMAIN swift \ {cname} |-> swift[c]]
                              /\ out' = out \cup found
                                            \cup {<<"........deleted.", cname>>}
                              /\ todo' = Tail(todo)
                              /\ UNCHANGED spc
                           \/ /\ out' = out \cup found \cup {<<"...Error">>}
                              /\ spc' = "done"
                              /\ UNCHANGED <<swift, todo>>
                   ELSE /\ ops' = ops \cup seen
                        /\ out' = out \cup found
                        /\ todo' = Tail(todo)
                        /\ UNCHANGED <<swift, spc>>
    /\ UNCHANGED <<notSweep, action, rgw>>

\* check_objects with the test of res['success'] inverted
objs_delete_found(actual, cname, objects) == {o \in objects : o \in rgw[actual][cname]}

\* check_objects: the objects whose stat on the owning region fails
objs_delete(actual, cname, objects) == {o \in objects : o \notin rgw[actual][cname]}

\* check_container: a region has the container; the objects of the migration
\* side are listed and check_objects stats them on that region, reports the
\* missing ones and, with action delete, util.delete_objects deletes them
CheckObjects ==
    /\ spc = "loop"
    /\ todo # << >>
    /\ LET cname == Head(todo) IN
       /\ ~endswith(cname, SEGMENTS)
       /\ \E q \in RegionOrders :
            /\ FirstWith(cname, q) # 0
            /\ LET actual == q[FirstWith(cname, q)]
                   objects == swift[cname]
                   missing == objs_delete(actual, cname, objects)
                   seen == RegionStats(cname, q)
                             \cup {Op("list", "swift", cname, {})}
                   lines == {<<"......Checking container", cname, actual>>}
                   found == {<<".........FOUND nonexistent object", cname, o>> :
                                o \in missing}
               IN  IF objects = {}
                   THEN /\ ops' = ops \cup seen
                        /\ out' = out \cup lines
                        /\ todo' = Tail(todo)
                        /\ UNCHANGED <<swift, spc>>
                   ELSE IF action = "delete" /\ missing # {}
                   THEN /\ ops' = ops \cup seen
                               \cup {Op("stat", actual, cname, objects),
                                     Op("delete", "swift", cname, missing)}
                        /\ \E gone \in SUBSET missing :
                             /\ swift' = [swift EXCEPT ![cname] = @ \ gone]
                             /\ IF gone = missing
                                THEN /\ out' = out \cup lines \cup found
                                          \cup {<<"...........deleted.", cname>>}
                                     /\ todo' = Tail(todo)
                                     /\ UNCHANGED spc
                                ELSE /\ out' = out \cup lines \cup found
                                          \cup {<<"...Error">>}
                                     /\ spc' = "done"
                                     /\ UNCHANGED todo
                   ELSE /\ ops' = ops \cup seen
                               \cup {Op("stat", actual, cname, objects)}
                        /\ out' = out \cup lines \cup found
                        /\ todo' = Tail(todo)
                        /\ UNCHANGED <<swift, spc>>
    /\ UNCHANGED <<notSweep, action, rgw>>

\* check_container: util.get_all_objects raises on a page that reports an error
GetAllObjectsFails ==
    /\ spc = "loop"
    /\ todo # << >>
    /\ LET cname == Head(todo) IN
       /\ ~endswith(cname, SEGMENTS)
       /\ \E q \in RegionOrders :
            /\ FirstWith(cname, q) # 0
            /\ ops' = ops \cup RegionStats(cname, q)
                          \cup {Op("list", "swift", cname, {})}
            /\ out' = out \cup {<<"......Checking container", cname,
                                  q[FirstWith(cname, q)]>>, <<"...Error">>}
            /\ spc' = "done"
    /\ UNCHANGED <<notSweep, action, swift, rgw, todo>>

\* check_container returns
SweepEnds ==
    /\ spc = "loop"
    /\ todo = << >>
    /\ spc' = "done"
    /\ UNCHANGED <<notSweep, action, ops, out, swift, rgw, todo>>

SweepNext ==
    \/ GetAllContainers
    \/ GetAllContainersFails
    \/ SegmentsContainer
    \/ NonexistentContainer
    \/ CheckObjects
    \/ GetAllObjectsFails
    \/ SweepEnds

SpecDeleted == SweepInit /\ [][SweepNext]_vars

(***************************************************************************)
(* The deleted-sweep: the claims                                           *)
(***************************************************************************)

\* the name is some prefix followed by _segments
IsSegmentsName(c) == \E k \in 0..Len(c) : c = SubSeq(c, 1, k) \o SEGMENTS

\* the operation or the printed line names the container c
OpNames(o, c) == o.container = c

LineNames(l, c) == Len(l) >= 2 /\ l[2] = c

\* C12: in every step of the deleted-sweep, for either action, a container
\* of the migration side whose name ends in _segments keeps its objects, no
\* line is printed about it and no operation (stat, list or delete) names it.
C12_SegmentsUntouched ==
    [][\A c \in DOMAIN swift :
          IsSegmentsName(c) =>
              /\ c \in DOMAIN swift'
              /\ swift'[c] = swift[c]
              /\ \A o \in ops' : ~OpNames(o, c)
              /\ \A l \in out' : ~LineNames(l, c)]_vars

\* old and old_segments were both absent from the source and the action is
\* delete: the sweep has ended, old has been deleted and old_segments is
\* still there with its objects
C12_Witness ==
    /\ spc = "done"
    /\ action = "delete"
    /\ <<"...Error">> \notin out
    /\ \A r \in DOMAIN rgw : DOMAIN rgw[r] = {}
    /\ DOMAIN swift = {ContainerOrder[2]}
    /\ swift[ContainerOrder[2]] = ObjNames
    /\ Op("delete", "swift", ContainerOrder[1], {}) \in ops
    /\ <<"......FOUND nonexistent container", ContainerOrder[1]>> \in out

\* the regions that have the container c
Having(c) == {r \in DOMAIN rgw : c \in DOMAIN rgw[r]}

\* the container c of the listing has been handled: the loop has passed it
\* and has asked the regions for it
Handled(c) ==
    /\ c \notin Range(todo)
    /\ \E o \in ops : o.op = "stat" /\ o.container = c /\ o.objects = {}

\* the objects of c reported as nonexistent
Reported(c) == {o \in ObjNames : <<".........FOUND nonexistent object", c, o>> \in out}

\* the operations that name c: deletes of objects, of the container, stats
\* of objects
ObjectDeletes(c) == {o \in ops : o.op = "delete" /\ o.container = c /\ o.objects # {}}

ContainerDeletes(c) == {o \in ops : o.op = "delete" /\ o.container = c /\ o.objects = {}}

ObjectStats(c) == {o \in ops : o.op = "stat" /\ o.container = c /\ o.objects # {}}

REGION_SUFFIX_MAP == ("nz-por-1" :> "por") @@ ("nz_wlg_2" :> "wlg")

SHARED == <<"shared">>

\* '%s-%s' % (name, suffix)
NewName(name, suffix) == name \o <<"-", suffix>>

\* the container names of the accounts before the tool runs
DupContainerNames == {SHARED, NewName(SHARED, "por")}

\* an account of a region: each container holds some objects, and the content
\* of an object tells where it was first stored
Accounts ==
    UNION { {[c \in D |-> [o \in objs[c] |-> <<c, o>>]] :
                objs \in [D -> SUBSET ObjNames]}
            : D \in SUBSET DupContainerNames }

Roles == {"admin", "member"}

DupInit ==
    /\ probe = Idle
    /\ plan = Idle
    /\ CopyIdle
    /\ WorkIdle
    /\ SweepIdle
    /\ action \in {"report", "rename"}
    /\ ops = {}
    /\ out = {}
    /\ region_conns \in [DOMAIN REGION_SUFFIX_MAP -> Accounts]
    /\ user_roles \in {{}} \cup {{r} : r \in Roles}
    /\ args_role \in Roles
    /\ dup_names = {}
    /\ handled = {}
    /\ cur = [name |-> NoName, left |-> {}]
    /\ dpc = "access"
    /\ mt = Idle
    /\ wl = Idle

\* util.check_tenant_access with keycon read as keyconn: the role is granted
check_tenant_access_granting(role, roles) ==
    IF \E r \in roles : r = "admin" \/ r = role
    THEN Return({})
    ELSE Return({Op("grant", "keystone", << >>, {role})})

\* util.check_tenant_access: the operations it issues besides the listing of
\* the roles; keycon is not a name of the function or of the module
check_tenant_access(role, roles) ==
    IF \E r \in roles : r = "admin" \/ r = role
    THEN Return({})
    ELSE Raise("NameError")

\* _check_duplicate: the access of the user to the tenant is checked
CheckTenantAccess ==
    /\ dpc = "access"
    /\ LET res == check_tenant_access(args_role, user_roles)
           asked == {Op("list", "keystone", << >>, {})}
       IN  IF res.st = "ret"
           THEN /\ ops' = ops \cup asked \cup res.val
                /\ user_roles' = user_roles \cup UNION {o.objects : o \in res.val}
                /\ dpc' = "list"
           ELSE /\ ops' = ops \cup asked
                /\ dpc' = "crashed"
                /\ UNCHANGED user_roles
    /\ UNCHANGED <<notDup, action, out, region_conns, args_role, dup_names,
                   handled, cur>>

\* src_names & dest_names
DupNames(src_names, dest_names) == src_names \cap dest_names

\* _check_duplicate: both accounts are listed
GetAccounts ==
    /\ dpc = "list"
    /\ ops' = ops \cup {Op("list", r, << >>, {}) : r \in DOMAIN region_conns}
    /\ dup_names' = DupNames(DOMAIN region_conns["nz-por-1"],
                             DOMAIN region_conns["nz_wlg_2"])
    /\ dpc' = "dups"
    /\ UNCHANGED <<notDup, action, out, region_conns, user_roles, args_role,
                   handled, cur>>

\* conn.get_account raises: nothing catches it
GetAccountFails ==
    /\ dpc = "list"
    /\ \E r \in DOMAIN region_conns : ops' = ops \cup {Op("list", r, << >>, {})}
    /\ dpc' = "crashed"
    /\ UNCHANGED <<notDup, action, out, region_conns, user_roles, args_role,
                   dup_names, handled, cur>>

\* for name in dup_names: the name is printed and, with action rename, the
\* loop over the regions starts
NextDuplicate ==
    /\ dpc = "dups"
    /\ cur.name = NoName
    /\ \E name \in dup_names \ handled :
         /\ out' = out \cup {<<"....Container name", name>>}
         /\ IF action = "rename"
            THEN /\ cur' = [name |-> name, left |-> DOMAIN region_conns]
                 /\ UNCHANGED handled
            ELSE /\ handled' = handled \cup {name}
                 /\ UNCHANGED cur
    /\ UNCHANGED <<notDup, action, ops, region_conns, user_roles, args_role,
                   dup_names, dpc>>

\* util.rename_container with the commented-out lines at its end in force:
\* the objects copied are deleted from the old container
rename_container_moving(conn, name, suffix, copied) ==
    LET new_name == NewName(name, suffix)
        had == IF new_name \in DOMAIN conn THEN conn[new_name] ELSE << >>
    IN  (new_name :> ([o \in copied |-> conn[name][o]] @@ had))
          @@ (name :> [o \in DOMAIN conn[name] \ copied |-> conn[name][o]])
          @@ conn

\* util.rename_container: the account after the objects `copied` of the
\* container have been copied to the new container, created when missing
rename_container(conn, name, suffix, copied) ==
    LET new_name == NewName(name, suffix)
        had == IF new_name \in DOMAIN conn THEN conn[new_name] ELSE << >>
    IN  (new_name :> ([o \in copied |-> conn[name][o]] @@ had)) @@ conn

\* util.rename_container copying every object, whether the new container
\* holds it or not
to_copy_all(conn, name, suffix) == DOMAIN conn[name]

\* util.rename_container: the objects of the container for which
\* head_object(new_name, o_name) raises, the new container not holding them
to_copy(conn, name, suffix) ==
    LET new_name == NewName(name, suffix)
        had == IF new_name \in DOMAIN conn THEN DOMAIN conn[new_name] ELSE {}
    IN  DOMAIN conn[name] \ had

\* the requests util.rename_container issues when it copies `copied`
RenameOps(region, conn, name, suffix, copied) ==
    LET new_name == NewName(name, suffix) IN
    {Op("head", region, new_name, {}), Op("list", region, name, {})}
      \cup (IF new_name \in DOMAIN conn THEN {}
            ELSE {Op("head", region, name, {}),
                  Op("put_container", region, new_name, {})})
      \cup {Op("head", region, new_name, {o}) : o \in DOMAIN conn[name]}
      \cup {Op("copy", region, new_name, {o}) : o \in copied}

\* util.rename_container for the next region: the new container is created
\* unless it exists, and every object the new container does not hold is
\* copied; a put that raises ends the tool
RenameContainer ==
    /\ dpc = "dups"
    /\ cur.name # NoName
    /\ \E region \in cur.left :
         LET conn == region_conns[region]
             suffix == REGION_SUFFIX_MAP[region]
             new_name == NewName(cur.name, suffix)
             missing == to_copy(conn, cur.name, suffix)
         IN  \/ /\ region_conns' = [region_conns EXCEPT ![region] =
                       rename_container(conn, cur.name, suffix, missing)]
                /\ ops' = ops \cup RenameOps(region, conn, cur.name, suffix, missing)
                /\ out' = out \cup {<<"......Region", cur.name, region>>}
                /\ IF cur.left = {region}
                   THEN /\ cur' = [name |-> NoName, left |-> {}]
                        /\ handled' = handled \cup {cur.name}
                   ELSE /\ cur' = [cur EXCEPT !.left = @ \ {region}]
                        /\ UNCHANGED handled
                /\ UNCHANGED dpc
             \/ /\ new_name \notin DOMAIN conn
                /\ ops' = ops \cup {Op("head", region, new_name, {}),
                                    Op("head", region, cur.name, {}),
                                    Op("put_container", region, new_name, {})}
                /\ out' = out \cup {<<"......Region", cur.name, region>>}
                /\ dpc' = "crashed"
                /\ UNCHANGED <<region_conns, cur, handled>>
             \/ \E copied \in SUBSET missing :
                /\ copied # missing
                /\ region_conns' = [region_conns EXCEPT ![region] =
                       rename_container(conn, cur.name, suffix, copied)]
                /\ ops' = ops \cup RenameOps(region, conn, cur.name, suffix, copied)
                /\ out' = out \cup {<<"......Region", cur.name, region>>}
                /\ dpc' = "crashed"
                /\ UNCHANGED <<cur, handled>>
    /\ UNCHANGED <<notDup, action, user_roles, args_role, dup_names>>

\* _close_connections, and the tool ends
CloseConnections ==
    /\ dpc = "dups"
    /\ cur.name = NoName
    /\ handled = dup_names
    /\ dpc' = "done"
    /\ UNCHANGED <<notDup, action, ops, out, region_conns, user_roles, args_role,
                   dup_names, handled, cur>>

DupNext ==
    \/ CheckTenantAccess
    \/ GetAccounts
    \/ GetAccountFails
    \/ NextDuplicate
    \/ RenameContainer
    \/ CloseConnections

SpecDuplicate == DupInit /\ [][DupNext]_vars

(***************************************************************************)
(* The duplicate check: the claims                                         *)
(***************************************************************************)

\* the objects a container of a region held before the tool ran: an object
\* copied by the tool carries the content of another container
OriginalObjects(region, c) ==
    {o \in DOMAIN region_conns[region][c] : region_conns[region][c][o] = <<c, o>>}

\* no container and no object of either region is removed or altered by the step
NothingRemoved ==
    \A region \in DOMAIN region_conns :
      \A c \in DOMAIN region_conns[region] :
        /\ c \in DOMAIN region_conns'[region]
        /\ \A o \in DOMAIN region_conns[region][c] :
             /\ o \in DOMAIN region_conns'[region][c]
             /\ region_conns'[region][c][o] = region_conns[region][c][o]

\* the step that lists the accounts yields the names both regions hold
DupIsIntersection ==
    IF dpc = "list" /\ dpc' = "dups"
    THEN dup_names' = {c \in DOMAIN region_conns["nz-por-1"] :
                         c \in DOMAIN region_conns["nz_wlg_2"]}
    ELSE dup_names' = dup_names

\* a name whose rename has completed has, in each region, the container named
\* after the region, holding every object name of the original
RenamedEverywhere ==
    action' = "rename" =>
      \A name \in handled' : \A region \in DOMAIN region_conns' :
        LET new_name == NewName(name, REGION_SUFFIX_MAP[region]) IN
        /\ new_name \in DOMAIN region_conns'[region]
        /\ \A o \in DOMAIN region_conns'[region][name] :
             region_conns'[region][name][o] = <<name, o>>
               => o \in DOMAIN region_conns'[region][new_name]

ReconInit == SweepInit \/ DupInit

ReconNext ==
    \/ GetAllContainers
    \/ GetAllContainersFails
    \/ SegmentsContainer
    \/ NonexistentContainer
    \/ CheckObjects
    \/ GetAllObjectsFails
    \/ SweepEnds
    \/ CheckTenantAccess
    \/ GetAccounts
    \/ GetAccountFails
    \/ NextDuplicate
    \/ RenameContainer
    \/ CloseConnections

SpecRecon == ReconInit /\ [][ReconNext]_vars

\* the requests that read and change nothing
ReadingOps == {"list", "stat", "head"}

upload_handler_by_presence(src_data, src_ohead) ==
    IF "x-object-manifest" \in DOMAIN src_ohead
    THEN [fn |-> "migrate_DLO", segmented |-> FALSE, old_hash |-> FALSE]
    ELSE IF "x-static-large-object" \in DOMAIN src_ohead
    THEN [fn |-> "migrate_SLO", segmented |-> FALSE, old_hash |-> FALSE]
    ELSE [fn |-> "migrate_object",
          segmented |-> BytesGt(src_data.bytes, GB_5),
          old_hash |-> HASH_PATTERN_match(src_data.hash)]

\* migrate_container, lines 376 and 390-398, and migrate_object, lines
\* 287-299: the function called, whether the upload is segmented, and whether
\* header_list starts with the old-hash entry
upload_handler(src_data, src_ohead) ==
    LET is_dlo == Truthy(src_ohead, "x-object-manifest") IN
    IF is_dlo
    THEN [fn |-> "migrate_DLO", segmented |-> FALSE, old_hash |-> FALSE]
    ELSE IF Truthy(src_ohead, "x-static-large-object")
    THEN [fn |-> "migrate_SLO", segmented |-> FALSE, old_hash |-> FALSE]
    ELSE LET single_large_object == BytesGt(src_data.bytes, GB_5) IN
         [fn |-> "migrate_object",
          segmented |-> single_large_object,
          old_hash |-> HASH_PATTERN_match(src_data.hash)]

HandlerInit ==
    /\ probe \in [at : {"choose"}, src : ProbeSources]
    /\ plan = Idle
    /\ CopyIdle
    /\ WorkIdle
    /\ ReconIdle
    /\ SweepIdle
    /\ DupIdle
    /\ mt = Idle
    /\ wl = Idle

\* the try block of migrate_container picks the handler of the object
ChooseHandler ==
    /\ probe.at = "choose"
    /\ probe' = [at |-> "chosen", src |-> probe.src,
                 res |-> upload_handler(probe.src.object, probe.src.header)]
    /\ UNCHANGED notDecide

HandlerNext == ChooseHandler

SpecHandler == HandlerInit /\ [][HandlerNext]_vars

\* the handlers by their names in the classification
DLOHandler == [fn |-> "migrate_DLO", segmented |-> FALSE, old_hash |-> FALSE]

SLOHandler == [fn |-> "migrate_SLO", segmented |-> FALSE, old_hash |-> FALSE]

SingleLargeHandler(h) ==
    [fn |-> "migrate_object", segmented |-> TRUE, old_hash |-> HASH_PATTERN_match(h)]

S3MultipartHandler == [fn |-> "migrate_object", segmented |-> FALSE, old_hash |-> TRUE]

NormalHandler == [fn |-> "migrate_object", segmented |-> FALSE, old_hash |-> FALSE]

\* the first-match order over an object, has(k) telling whether the header k
\* selects its handler
FirstMatch(object, has(_)) ==
    IF has("x-object-manifest") THEN DLOHandler
    ELSE IF has("x-static-large-object") THEN SLOHandler
    ELSE IF BytesGt(object.bytes, Bytes(5, 0)) THEN SingleLargeHandler(object.hash)
    ELSE IF HASH_PATTERN_match(object.hash) THEN S3MultipartHandler
    ELSE NormalHandler

\* C15 as claimed: the handler follows the first-match order DLO, SLO,
\* SingleLarge (over 5 GiB), S3Multipart, Normal, and the presence of
\* x-object-manifest or x-static-large-object alone, whatever the value,
\* selects DLO or SLO.
C15_AsClaimed ==
    probe.at = "chosen" =>
        probe.res = FirstMatch(probe.src.object,
                               LAMBDA k : k \in DOMAIN probe.src.header)

\* C15 amended: the handler follows the first-match order DLO, SLO,
\* SingleLarge (strictly over 5 GiB, whatever the hash), S3Multipart, Normal,
\* where x-object-manifest or x-static-large-object selects DLO or SLO when
\* it is present with a non-empty value.
C15_FirstMatch ==
    probe.at = "chosen" =>
        probe.res = FirstMatch(probe.src.object,
                               LAMBDA k : /\ k \in DOMAIN probe.src.header
                                          /\ probe.src.header[k] # << >>)

\* an object of exactly 5 GiB with a multipart hash and an empty
\* x-object-manifest has been given the streaming handler
C15_Witness ==
    /\ probe.at = "chosen"
    /\ probe.src.object.bytes = Bytes(5, 0)
    /\ HASH_PATTERN_match(probe.src.object.hash)
    /\ "x-object-manifest" \in DOMAIN probe.src.header
    /\ probe.src.header["x-object-manifest"] = << >>
    /\ "x-static-large-object" \notin DOMAIN probe.src.header
    /\ probe.res = S3MultipartHandler

(***************************************************************************)
(* Specification SpecVerify: check_migrate_after applied to every source   *)
(* object and every result of the stat of the target after the upload      *)
(***************************************************************************)

VerifyInit ==
    /\ probe \in [at : {"uploaded"}, src : ProbeSources, tgt : ProbeTargets]
    /\ plan = Idle
    /\ CopyIdle
    /\ WorkIdle
    /\ ReconIdle
    /\ SweepIdle
    /\ DupIdle
    /\ mt = Idle
    /\ wl = Idle

\* migrate_container, lines 400-402: check_migrate_after is called with
\* is_dlo of line 376 and the target is statted again
VerifyReturn ==
    /\ probe.at = "uploaded"
    /\ probe' = [at |-> "verified", src |-> probe.src, tgt |-> probe.tgt,
                 is_dlo |-> Truthy(probe.src.header, "x-object-manifest"),
                 res |-> check_migrate_after(
                             probe.src.object, probe.tgt,
                             Truthy(probe.src.header, "x-object-manifest"))]
    /\ UNCHANGED notDecide

VerifyNext == VerifyReturn

SpecVerify == VerifyInit /\ [][VerifyNext]_vars

Mismatch == Raise("src and target objects have different hashes.")

\* C16 as claimed: for an object that is not a DLO whose target stat
\* succeeded, the mismatch failure is raised if and only if the target has no
\* x-object-meta-old-hash header and its etag differs from the source hash;
\* for a DLO the verification produces no failure at all.
C16_AsClaimed ==
    probe.at = "verified" =>
        IF probe.is_dlo THEN probe.res.st = "ret"
        ELSE probe.tgt.success =>
               (probe.res = Mismatch
                  <=> /\ OLD_HASH_HEADER \notin DOMAIN probe.tgt.headers
                      /\ probe.tgt.headers["etag"] # probe.src.object.hash)

\* C16 amended: a failed stat of the target is a failure for every object,
\* DLO included; when the stat succeeds, for an object that is not a DLO the
\* mismatch failure is raised if and only if the target has no
\* x-object-meta-old-hash header of a non-empty value and its etag differs
\* from the source hash, and nothing else is raised; for a DLO nothing is
\* compared and nothing is raised.
C16_VerifyRule ==
    probe.at = "verified" =>
        IF ~probe.tgt.success THEN probe.res.st = "raise" /\ probe.res # Mismatch
        ELSE IF probe.is_dlo THEN probe.res.st = "ret"
        ELSE IF /\ DictGet(probe.tgt.headers, OLD_HASH_HEADER, << >>) = << >>
                /\ probe.tgt.headers["etag"] # probe.src.object.hash
             THEN probe.res = Mismatch
             ELSE probe.res.st = "ret"

\* an object that is not a DLO, whose target has no old-hash header and
\* another etag, has been refused
C16_Witness ==
    /\ probe.at = "verified"
    /\ ~probe.is_dlo
    /\ probe.tgt.success
    /\ OLD_HASH_HEADER \notin DOMAIN probe.tgt.headers
    /\ probe.tgt.headers["etag"] # probe.src.object.hash
    /\ probe.res = Mismatch

(***************************************************************************)
(* Specification SpecMeta: the handlers of migrate_container applied to    *)
(* every source object and every set of headers: what is downloaded and    *)
(* what is handed to the upload                                            *)
(***************************************************************************)

\* the values of a user metadata header
MetaValues == { << >>, <<"v">> }

\* the header names a source object may carry besides etag and content-length
OptionalNames ==
    {OLD_HASH_HEADER, "x-object-meta-a", "X-Object-Meta-B", "x-object-metab"}

\* the headers of the stat of a source object
MetaHeads(h) ==
    UNION { {("etag" :> h) @@ ("content-length" :> 7)
               @@ OptEntry("x-object-manifest", m)
               @@ OptEntry("x-static-large-object", sl) @@ more :
                more \in [D -> MetaValues],
                m \in Opt({<<"s", "/", "p">>}), sl \in Opt({TrueStr})}
            : D \in SUBSET OptionalNames }

MetaInit ==
    /\ \E h \in Hashes, b \in Sizes :
         probe \in [at : {"try"},
                    object : {[name |-> "o1", hash |-> h, bytes |-> b]},
                    header : MetaHeads(h)]
    /\ plan = Idle
    /\ CopyIdle
    /\ WorkIdle
    /\ ReconIdle
    /\ SweepIdle
    /\ DupIdle
    /\ mt = Idle
    /\ wl = Idle

\* migrate_container, lines 389-398: the handler of the object is called
MetaUpload ==
    /\ probe.at = "try"
    /\ LET fn == upload_handler(probe.object, probe.header).fn IN
       probe' = [at |-> "uploaded", object |-> probe.object,
                 header |-> probe.header,
                 res |-> IF fn = "migrate_DLO"
                           THEN migrate_DLO(probe.object, probe.header)
                         ELSE IF fn = "migrate_SLO"
                           THEN migrate_SLO(probe.object, probe.header)
                         ELSE migrate_object(probe.object, probe.header)]
    /\ UNCHANGED notDecide

MetaNext == MetaUpload

SpecMeta == MetaInit /\ [][MetaNext]_vars

\* the name, lowered, has the shape x-object-meta-*
IsUserMetaName(k) ==
    LET q == Spelling[k] IN
    /\ Len(q) >= Len(META_PREFIX)
    /\ \A i \in 1..Len(META_PREFIX) :
         q[i] = META_PREFIX[i] \/ lower(<<q[i]>>) = <<META_PREFIX[i]>>

\* the object is one migrate_container hands to migrate_object as Normal
IsNormal(object, header) ==
    upload_handler(object, header) = NormalHandler

\* C17: for every migrated Normal object, every source header whose name
\* matches x-object-meta-* without regard to case is sent on the upload with
\* the same name and the same value; none is dropped.
C17_UserMetaSent ==
    (probe.at = "uploaded" /\ IsNormal(probe.object, probe.header)) =>
        \A k \in DOMAIN probe.header :
            IsUserMetaName(k) =>
                k \in DOMAIN probe.res.sent /\ probe.res.sent[k] = probe.header[k]

\* a Normal object with three user metadata headers, one of them spelled
\* with capitals and one empty, has been uploaded with all three
C17_Witness ==
    /\ probe.at = "uploaded"
    /\ IsNormal(probe.object, probe.header)
    /\ {"x-object-meta-a", "X-Object-Meta-B", OLD_HASH_HEADER}
           \subseteq DOMAIN probe.header
    /\ probe.header["x-object-meta-a"] = << >>
    /\ probe.header["X-Object-Meta-B"] = <<"v">>
    /\ DOMAIN probe.res.sent = {"x-object-meta-a", "X-Object-Meta-B", OLD_HASH_HEADER}

\* C18: a DLO is written as an object without body whose only supplied
\* header is x-object-manifest with the source's value, whatever other headers
\* the source carries; the handler downloads nothing and uploads no segment.
C18_ManifestOnly ==
    (probe.at = "uploaded"
        /\ upload_handler(probe.object, probe.header) = DLOHandler) =>
        /\ probe.res.sent =
               ("x-object-manifest" :> probe.header["x-object-manifest"])
        /\ probe.res.body = "none"
        /\ probe.res.downloads = {}
        /\ ~probe.res.segmented

\* a DLO over 5 GiB that carries user metadata has been written
C18_Witness ==
    /\ probe.at = "uploaded"
    /\ upload_handler(probe.object, probe.header) = DLOHandler
    /\ BytesGt(probe.object.bytes, GB_5)
    /\ "x-object-meta-a" \in DOMAIN probe.header
    /\ DOMAIN probe.res.sent = {"x-object-manifest"}
    /\ probe.res.body = "none"

(***************************************************************************)
(* Specification SpecTenant: migrate_tenant on one tenant, container after *)
(* container; migrate_container is taken as one step                       *)
(***************************************************************************)

\* the containers of the source account in the order of the listing
TenantContainers == <<"c1", "c2">>

\* the outcome of lines 426-439 with the target container ending up absent
\* handled as a success: migrate_container is called all the same
ensure_container_going_on(cname, found, post_ok) ==
    IF found
    THEN [lines |-> << <<"existing container", cname>> >>,
          created |-> FALSE, go |-> TRUE]
    ELSE [lines |-> << <<"creating container", cname>>,
                       IF post_ok THEN <<"ok">> ELSE <<"failed. Reason", cname>> >>,
          created |-> post_ok, go |-> TRUE]

\* migrate_tenant, lines 426-439: the lines appended to the content, whether
\* the target container has been created, and whether migrate_container is
\* called (go) or the loop continues with the next container
ensure_container(cname, found, post_ok) ==
    IF found
    THEN [lines |-> << <<"existing container", cname>> >>,
          created |-> FALSE, go |-> TRUE]
    ELSE IF post_ok
    THEN [lines |-> << <<"creating container", cname>>, <<"ok">> >>,
          created |-> TRUE, go |-> TRUE]
    ELSE [lines |-> << <<"creating container", cname>>,
                       <<"failed. Reason", cname>> >>,
          created |-> FALSE, go |-> FALSE]

TenantInit ==
    /\ probe = Idle
    /\ plan = Idle
    /\ CopyIdle
    /\ WorkIdle
    /\ ReconIdle
    /\ SweepIdle
    /\ DupIdle
    /\ wl = Idle
    /\ \E S \in SUBSET Range(TenantContainers) :
         mt \in [listing : {InOrder(S, TenantContainers)},
                 objs : [S -> SUBSET ObjNames],
                 tgt : SUBSET Range(TenantContainers),
                 i : {1},
                 pc : {"container"},
                 content : {<< >>},
                 ops : {{}}]

\* a page of src_srvclient.list() reports an error: raise Exception
TenantListingFails ==
    /\ mt.pc = "container"
    /\ mt' = [mt EXCEPT !.pc = "raised",
                        !.ops = @ \cup {Op("list", "src", "", {})}]
    /\ UNCHANGED notTenant

\* src_srvclient.stat(container=cname) raises SwiftError, which nothing in
\* migrate_tenant catches
SourceContainerStatFails ==
    /\ mt.pc = "container"
    /\ mt.i <= Len(mt.listing)
    /\ mt' = [mt EXCEPT !.pc = "raised",
                        !.ops = @ \cup {Op("stat", "src", mt.listing[mt.i], {})}]
    /\ UNCHANGED notTenant

\* lines 411-439: the source container is statted, the target container is
\* statted and, when that stat raises, created with a post
EnsureContainer ==
    /\ mt.pc = "container"
    /\ mt.i <= Len(mt.listing)
    /\ LET cname == mt.listing[mt.i] IN
       \E found \in {cname \in mt.tgt, FALSE}, post_ok \in BOOLEAN :
         LET res == ensure_container(cname, found, post_ok) IN
         mt' = [mt EXCEPT
                  !.content = @ \o res.lines,
                  !.tgt = IF res.created THEN @ \cup {cname} ELSE @,
                  !.ops = @ \cup {Op("stat", "src", cname, {}),
                                  Op("stat", "tgt", cname, {})}
                            \cup (IF found THEN {}
                                  ELSE {Op("post", "tgt", cname, {})}),
                  !.pc = IF res.go THEN "objects" ELSE "container",
                  !.i = IF res.go THEN @ ELSE @ + 1]
    /\ UNCHANGED notTenant

\* migrate_container deleting from the source what it has downloaded
source_requests_moving(cname, seen, downloaded) ==
    {Op("list", "src", cname, {})}
      \cup {Op("stat", "src", cname, {o}) : o \in seen}
      \cup {Op("download", "src", cname, {o}) : o \in downloaded}
      \cup {Op("delete", "src", cname, {o}) : o \in downloaded}

\* the requests migrate_container and the handlers it calls send to the
\* source: the listing of the container, the stat of every object seen and
\* the download of the objects migrate_SLO and migrate_object move
source_requests(cname, seen, downloaded) ==
    {Op("list", "src", cname, {})}
      \cup {Op("stat", "src", cname, {o}) : o \in seen}
      \cup {Op("download", "src", cname, {o}) : o \in downloaded}

\* migrate_container(cname, ...): the container is listed; the objects seen
\* are statted on both sides and those moved are uploaded, after a download
\* unless the object is a DLO; it returns when it has seen every object, or
\* an error leaves it before
MigrateContainer ==
    /\ mt.pc = "objects"
    /\ LET cname == mt.listing[mt.i] IN
       \E seen \in SUBSET mt.objs[cname], raised \in BOOLEAN :
       \E moved \in SUBSET seen :
       \E downloaded \in SUBSET moved :
         /\ ~raised => seen = mt.objs[cname]
         /\ LET order == SeqOf(seen) IN
            mt' = [mt EXCEPT
                  !.content = @ \o
                      [k \in 1..Len(order) |->
                         <<IF order[k] \in moved THEN "creating object"
                           ELSE "existing object", cname, order[k]>>],
                  !.ops = @ \cup source_requests(cname, seen, downloaded)
                            \cup {Op("stat", "tgt", cname, {o}) : o \in seen}
                            \cup {Op("upload", "tgt", cname, {o}) : o \in moved},
                  !.pc = IF raised THEN "raised" ELSE "container",
                  !.i = IF raised THEN @ ELSE @ + 1]
    /\ UNCHANGED notTenant

\* the listing is exhausted: migrate_tenant returns
TenantReturns ==
    /\ mt.pc = "container"
    /\ mt.i > Len(mt.listing)
    /\ mt' = [mt EXCEPT !.pc = "done"]
    /\ UNCHANGED notTenant

TenantNext ==
    \/ TenantListingFails
    \/ SourceContainerStatFails
    \/ EnsureContainer
    \/ MigrateContainer
    \/ TenantReturns

SpecTenant == TenantInit /\ [][TenantNext]_vars

\* the content of m records that the creation of the container c failed
CreateFailed(c, m) ==
    \E k \in 1..(Len(m.content) - 1) :
        /\ m.content[k] = <<"creating container", c>>
        /\ m.content[k + 1] = <<"failed. Reason", c>>

\* the requests of m about the objects of the container c
ObjectOps(c, m) ==
    {o \in m.ops : o.container = c /\ (o.objects # {}
                                     \/ o.op \in {"list", "download", "upload"})}

\* C19: when the creation of a target container fails, the failure is in the
\* content, no object of that source container is listed, statted, downloaded
\* or uploaded, then or later, and the loop stands at the next container of
\* the listing.
C19_CreateFailureSkipsContainer ==
    [][ /\ \A c \in Range(mt'.listing) :
             CreateFailed(c, mt') => ObjectOps(c, mt') = {}
        /\ (/\ mt.i <= Len(mt.listing)
            /\ Op("post", "tgt", mt.listing[mt.i], {}) \in mt'.ops \ mt.ops
            /\ mt.listing[mt.i] \notin mt'.tgt)
             => /\ CreateFailed(mt.listing[mt.i], mt')
                /\ mt'.pc = "container"
                /\ mt'.i = mt.i + 1
                /\ mt'.listing = mt.listing ]_vars

\* the creation of c1 has failed, c1 holding objects, and c2 has been migrated
C19_Witness ==
    /\ mt.pc = "done"
    /\ mt.listing = TenantContainers
    /\ mt.objs["c1"] = ObjNames
    /\ CreateFailed("c1", mt)
    /\ "c1" \notin mt.tgt
    /\ "c2" \in mt.tgt
    /\ Op("upload", "tgt", "c2", {"o1"}) \in mt.ops

(***************************************************************************)
(* Specification SpecLoop: the loop of worker over the tenants of its      *)
(* bucket, one step per tenant (try, except and finally), for the workers  *)
(* main starts and joins                                                   *)
(***************************************************************************)

\* the buckets main hands to the workers
LoopBuckets ==
    { << <<"t1", "t2">>, <<"t3">> >>,
      << <<"t1">>, <<"t2", "t3">> >>,
      << <<"t1", "t2", "t3">>, << >> >> }

\* where the try block of worker ends: an error of _get_service_clients, of
\* the account stat, of the counters, of stat_tenant or migrate_tenant, or no
\* error
Outcomes == {"clients", "account", "counters", "act", "ok"}

\* the lines stat_tenant or migrate_tenant appends before it returns or raises
ActLines == {<< >>, << <<"container">> >>, << <<"container">>, <<"object">> >>}

\* the try block, lines 554-589: the content collected and whether it raised
try_body(tenant, outcome, lines) ==
    LET processing == <<"....processing tenant", tenant>>
        usage == <<"......containers", tenant>>
    IN  [content |-> IF outcome \in {"clients", "account"} THEN <<processing>>
                     ELSE IF outcome = "counters" THEN <<processing, usage>>
                     ELSE <<processing, usage>> \o lines,
         raised |-> outcome # "ok"]

\* the loop body without its except and finally clauses: an error leaves the
\* worker, nothing is printed and nothing is written
worker_iteration_without_handlers(me, id, tenant, body) ==
    IF body.raised
    THEN [me EXCEPT !.pc = "crashed", !.i = @ + 1,
                    !.collected = body.content, !.raised = TRUE]
    ELSE [i |-> me.i + 1, pc |-> "loop",
          collected |-> body.content, raised |-> FALSE,
          file |-> Append(me.file, body.content), printed |-> me.printed]

\* the loop body, lines 552-598: the except clause prints the error, the
\* finally clause appends the content to the file, and the loop goes on
worker_iteration(me, id, tenant, body) ==
    [i |-> me.i + 1, pc |-> "loop",
     collected |-> body.content, raised |-> body.raised,
     file |-> Append(me.file, body.content),
     printed |-> me.printed \cup
                   (IF body.raised THEN {<<"error occured", id, tenant>>} ELSE {})]

LoopInit ==
    /\ probe = Idle
    /\ plan = Idle
    /\ CopyIdle
    /\ WorkIdle
    /\ ReconIdle
    /\ SweepIdle
    /\ DupIdle
    /\ mt = Idle
    /\ \E buckets \in LoopBuckets :
         wl = [buckets |-> buckets,
               w |-> [id \in DOMAIN buckets |->
                        [i |-> 0, pc |-> "loop", collected |-> << >>,
                         raised |-> FALSE, file |-> << >>, printed |-> {}]],
               main |-> "started"]

\* for tenant in tenants: one tenant is processed, with or without an error
ProcessTenant ==
    /\ wl.main = "started"
    /\ \E id \in DOMAIN wl.w, outcome \in Outcomes, lines \in ActLines :
         LET me == wl.w[id] IN
         /\ me.pc = "loop"
         /\ me.i < Len(wl.buckets[id])
         /\ LET tenant == wl.buckets[id][me.i + 1] IN
            wl' = [wl EXCEPT !.w[id] =
                      worker_iteration(me, id, tenant,
                                       try_body(tenant, outcome, lines))]
    /\ UNCHANGED notLoop

\* the bucket is exhausted: the worker process exits
LoopEnds ==
    /\ \E id \in DOMAIN wl.w :
         /\ wl.w[id].pc = "loop"
         /\ wl.w[id].i = Len(wl.buckets[id])
         /\ wl' = [wl EXCEPT !.w[id].pc = "done"]
    /\ UNCHANGED notLoop

\* for p in jobs: p.join(): every worker process has exited
JoinWorkers ==
    /\ wl.main = "started"
    /\ \A id \in DOMAIN wl.w : wl.w[id].pc \in {"done", "crashed"}
    /\ wl' = [wl EXCEPT !.main = "joined"]
    /\ UNCHANGED notLoop

LoopNext ==
    \/ ProcessTenant
    \/ LoopEnds
    \/ JoinWorkers

SpecLoop == LoopInit /\ [][LoopNext]_vars

\* C20: when the processing of a tenant fails, at the creation of the
\* clients, at the account stat, or by an error of stat_tenant or
\* migrate_tenant, the error is printed, the content collected so far is
\* appended to the worker's file, the worker stands at the next tenant of its
\* bucket, and no other worker and not main is affected.
C20_TenantErrorsStayInside ==
    [][ \A id \in DOMAIN wl.w :
          (wl'.w[id].i = wl.w[id].i + 1 /\ wl'.w[id].raised) =>
             LET tenant == wl.buckets[id][wl'.w[id].i] IN
             /\ <<"error occured", id, tenant>> \in wl'.w[id].printed
             /\ wl'.w[id].collected[1] = <<"....processing tenant", tenant>>
             /\ wl'.w[id].file = Append(wl.w[id].file, wl'.w[id].collected)
             /\ wl'.w[id].pc = "loop"
             /\ \A other \in DOMAIN wl.w \ {id} : wl'.w[other] = wl.w[other]
             /\ wl'.main = wl.main
             /\ wl'.buckets = wl.buckets ]_vars

\* the first tenant of a worker has failed in migrate_tenant with lines
\* collected, its second tenant has been processed after it, and main has
\* joined both workers
C20_Witness ==
    /\ wl.main = "joined"
    /\ \E id \in DOMAIN wl.w :
         /\ Len(wl.w[id].file) = 2
         /\ Len(wl.w[id].file[1]) = 4
         /\ <<"error occured", id, wl.buckets[id][1]>> \in wl.w[id].printed
         /\ <<"error occured", id, wl.buckets[id][2]>> \notin wl.w[id].printed
         /\ wl.w[id].pc = "done"

(***************************************************************************)
(* The access of the user to the tenant: the claim                         *)
(***************************************************************************)

\* the user holds admin or the role of --role in the tenant
HoldsAccess(roles) == \E r \in roles : r = "admin" \/ r = args_role

\* C21 as claimed: when the user holds neither the role of --role nor admin
\* in the tenant, the check grants the role (the grant is issued and
\* succeeds, and the tool goes on); when the user holds either, no grant is
\* issued.
C21_GrantWhenMissing ==
    [][ dpc = "access" =>
          IF HoldsAccess(user_roles)
          THEN \A o \in ops' : o.op # "grant"
          ELSE /\ \E o \in ops' : o.op = "grant" /\ o.objects = {args_role}
               /\ args_role \in user_roles'
               /\ dpc' = "list" ]_vars


(***************************************************************************)
(* Tenant planning: names that are not enabled tenants                     *)
(***************************************************************************)

\* the names of the include list or include file in force that are not names
\* of enabled tenants
PlanInvalid ==
    LET a == plan.args
        Names(o) == UNION {Range(l) : l \in o}
    IN  IF a.include_tenants \notin {{}, {<< >>}}
        THEN Names(a.include_tenants) \ Range(plan.tenants)
        ELSE IF a.exclude_tenants \notin {{}, {<< >>}} THEN {}
        ELSE IF a.include_file # {} THEN Names(a.include_file) \ Range(plan.tenants)
        ELSE {}

\* C22: when a name of the include list or include file is not the name of an
\* enabled tenant, planning prints the set of offending names and exits with
\* a non-zero status: it returns no bucket, no worker has started and no
\* store operation has been issued.
C22_InvalidIncludeExits ==
    (plan.at = "done" /\ PlanInvalid # {}) =>
        /\ plan.res.st = "exit"
        /\ plan.res.code # 0
        /\ plan.res.printed = PlanInvalid
        /\ WorkIdle
        /\ ReconIdle

\* an include list with one enabled and one unknown name, planned for workers
C22_Witness ==
    /\ plan.at = "done"
    /\ plan.multiprocess
    /\ Cardinality(PlanInvalid) = 1
    /\ \E l \in plan.args.include_tenants :
          Range(l) \cap Range(plan.tenants) # {}
    /\ plan.res.st = "exit"


\* C28 as claimed: on valid input (no included name that is not an enabled
\* tenant) and every concurrency N >= 1 the planner returns, without
\* raising, a list of at most N buckets; when the filter leaves no tenant, no
\* returned bucket holds a tenant.
C28_PlanningTotal ==
    (plan.at = "done" /\ PlanInvalid = {}) =>
        /\ plan.res.st = "ret"
        /\ Len(plan.res.val) <= plan.args.concurrency
        /\ PlanFiltered = {} =>
              \A k \in 1..Len(plan.res.val) : plan.res.val[k] = << >>


(***************************************************************************)
(* Re-migration onto a marked target object                                *)
(***************************************************************************)

\* C23 as claimed: an upload of an object whose source hash matches the
\* multipart pattern onto a target object that carries x-object-meta-old-hash
\* leaves the target object with x-object-meta-old-hash equal to the current
\* source hash.
C23_ReuploadKeepsOldHash ==
    [][ (/\ pc = "migrate"
         /\ pc' = "verify"
         /\ FullMatch(src[idx].hash)
         /\ src[idx].name \in DOMAIN tgt
         /\ OLD_HASH_HEADER \in DOMAIN tgt[src[idx].name])
        => Carries(tgt'[src[idx].name], OLD_HASH_HEADER, src[idx].hash) ]_vars


(***************************************************************************)
(* Specification SpecPattern: the three uses of HASH_PATTERN applied to    *)
(* every hash string                                                       *)
(***************************************************************************)

MaxHashLen == 5

\* word characters, the dash and a character that is neither
HashChars == {"a", "1", "-", "!"}

PatternHashes == UNION {[1..k -> HashChars] : k \in 1..MaxHashLen}

\* _print_object_detail: the prefix of the object's line in the stat output
prefix(item) == IF HASH_PATTERN_match(item.hash) THEN "[large-object] " ELSE ""

\* the headers the source stat returns for the listed item
ItemHead(item) == SrcHead(item.hash, 7, {}, {}, {})

\* a target object that carries the item's hash as x-object-meta-old-hash and
\* whose etag and content-length differ from the source's
MarkedTarget(item) ==
    [success |-> TRUE,
     headers |-> TgtHead(item.hash \o <<"b">>, 9, {item.hash})]

PatternInit ==
    /\ probe \in [at : {"listed"},
                  item : {[name |-> "o1", hash |-> h, bytes |-> KB] :
                             h \in PatternHashes}]
    /\ plan = Idle
    /\ CopyIdle
    /\ WorkIdle
    /\ ReconIdle
    /\ SweepIdle
    /\ DupIdle
    /\ mt = Idle
    /\ wl = Idle

\* stat: the line of the object is given its prefix
PrintObjectDetail ==
    /\ probe.at = "listed"
    /\ probe' = [at |-> "printed", item |-> probe.item,
                 res |-> prefix(probe.item)]
    /\ UNCHANGED notDecide

\* copy: check_migrate_object on the marked target
DecideMarked ==
    /\ probe.at = "listed"
    /\ probe' = [at |-> "decided", item |-> probe.item,
                 res |-> check_migrate_object(probe.item, ItemHead(probe.item),
                                              MarkedTarget(probe.item))]
    /\ UNCHANGED notDecide

\* copy: migrate_object builds the header list of the upload
BuildHeaderList ==
    /\ probe.at = "listed"
    /\ probe' = [at |-> "built", item |-> probe.item,
                 res |-> header_list(probe.item, ItemHead(probe.item))]
    /\ UNCHANGED notDecide

PatternNext == PrintObjectDetail \/ DecideMarked \/ BuildHeaderList

SpecPattern == PatternInit /\ [][PatternNext]_vars

\* C24 as claimed: an object is treated as S3-multipart (the '[large-object]'
\* prefix in the stat output, the old-hash Skip rule, the old-hash header on
\* upload) if and only if its entire hash matches ^\w+-\w+$; a hash that only
\* starts with such a match is not.
C24_EntireHashMatches ==
    LET multipart == FullMatch(probe.item.hash) IN
    /\ probe.at = "printed" => (probe.res = "[large-object] " <=> multipart)
    /\ probe.at = "decided" => (probe.res = FALSE <=> multipart)
    /\ probe.at = "built" =>
          (probe.res = << <<OLD_HASH_HEADER, probe.item.hash>> >> <=> multipart)


(***************************************************************************)
(* The outcome of every object in the audit content                        *)
(***************************************************************************)

\* the lines that open the record of an object
IsObjectLine(line) == line[1] \in {"existing object", "creating object"}

\* the positions of the lines that open the record of object n
RecordsOf(n) ==
    {i \in 1..Len(content) : IsObjectLine(content[i]) /\ content[i][2] = n}

\* what follows the line at position i up to the next object's record, the
\* notes of migrate_object left out: the outcome lines of the object
OutcomeAfter(i) ==
    LET later == {j \in (i + 1)..Len(content) : IsObjectLine(content[j])}
        last == IF later = {} THEN Len(content)
                ELSE (CHOOSE j \in later : \A k \in later : j <= k) - 1
        lines == [k \in 1..(last - i) |-> content[i + k][1]]
    IN  SelectSeq(lines, LAMBDA l : l \in {"..ok", "..failed. Reason"})

\* the object at hand has been decided Transfer and is not through yet
InTransfer(n) == idx \in 1..Len(src) /\ src[idx].name = n /\ pc \in {"migrate", "verify"}

\* the container's listing has been read to its end in this run
Listed == pc = "KeyError" \/ (pc = "end" /\ idx > Len(src))

\* at most one record for an object, and its outcome lines
RecordsWellFormed ==
    \A n \in 1..Len(src) :
       /\ Cardinality(RecordsOf(n)) <= 1
       /\ \A i \in RecordsOf(n) :
             IF content[i][1] = "existing object" THEN OutcomeAfter(i) = << >>
             ELSE IF InTransfer(n) THEN OutcomeAfter(i) = << >>
             ELSE OutcomeAfter(i) \in {<<"..ok">>, <<"..failed. Reason">>}

EveryListedRecorded == Listed => \A n \in 1..Len(src) : RecordsOf(n) # {}

\* the last record opened in the content is 'creating object' of object n
Creating(n) ==
    /\ RecordsOf(n) # {}
    /\ \A i \in RecordsOf(n) :
          /\ content[i][1] = "creating object"
          /\ \A j \in (i + 1)..Len(content) : ~IsObjectLine(content[j])

StepsInOrder ==
    /\ tgt' # tgt => (pc = "migrate" /\ Creating(src[idx].name))
    /\ (pc = "verify" /\ pc' # "verify") =>
          /\ Creating(src[idx].name)
          /\ written[src[idx].name].verify = "pending"
          /\ OutcomeAfter(Len(content)) = << >>

\* C25 as claimed: every object the container's listing names has exactly one
\* outcome in the audit content: 'existing object' with no upload and no
\* verification, or 'creating object' followed by exactly one of '..ok' and
\* '..failed. Reason'; an upload happens only after the object was decided
\* Transfer, and the verification only after its upload went through.
C25_OneOutcomeInOrder ==
    [](RecordsWellFormed /\ EveryListedRecorded) /\ [][StepsInOrder]_vars


(***************************************************************************)
(* Specification SpecRename: util.rename_container invoked for a container *)
(* of one region, and invoked again for the same name                      *)
(***************************************************************************)

\* the accounts that hold the container to rename
RenameAccounts == {a \in Accounts : SHARED \in DOMAIN a}

RenameInit ==
    /\ probe \in [at : {"start"}, region : DOMAIN REGION_SUFFIX_MAP,
                  conn : RenameAccounts, issued : {{}}]
    /\ plan = Idle
    /\ CopyIdle
    /\ WorkIdle
    /\ ReconIdle
    /\ SweepIdle
    /\ DupIdle
    /\ mt = Idle
    /\ wl = Idle

\* the invocation for the probe's region that copies the objects `copied`
Invoked(at, copied) ==
    LET suffix == REGION_SUFFIX_MAP[probe.region] IN
    [at |-> at, region |-> probe.region,
     conn |-> rename_container(probe.conn, SHARED, suffix, copied),
     issued |-> RenameOps(probe.region, probe.conn, SHARED, suffix, copied)]

\* the first invocation runs to its end
RenameFirst ==
    /\ probe.at = "start"
    /\ probe' = Invoked("renamed",
                        to_copy(probe.conn, SHARED, REGION_SUFFIX_MAP[probe.region]))
    /\ UNCHANGED notDecide

\* the first invocation ends in a put_object that raises, some objects copied
RenameInterrupted ==
    /\ probe.at = "start"
    /\ \E copied \in SUBSET to_copy(probe.conn, SHARED,
                                    REGION_SUFFIX_MAP[probe.region]) :
          /\ copied # to_copy(probe.conn, SHARED, REGION_SUFFIX_MAP[probe.region])
          /\ probe' = Invoked("interrupted", copied)
    /\ UNCHANGED notDecide

\* rename_container is invoked again for the same name, the region being as
\* the invocation before left it
RenameAgain ==
    /\ probe.at \in {"renamed", "interrupted"}
    /\ probe' = Invoked(IF probe.at = "renamed" THEN "again" ELSE "resumed",
                        to_copy(probe.conn, SHARED, REGION_SUFFIX_MAP[probe.region]))
    /\ UNCHANGED notDecide

RenameNext == RenameFirst \/ RenameInterrupted \/ RenameAgain

SpecRename == RenameInit /\ [][RenameNext]_vars

ContainerHeaderNames ==
    {"x-container-read", "x-container-write", "x-container-meta-a",
     "x-container-object-count"}

AclNames == {"x-container-read", "x-container-write"}

ContainerValues == {".r:*", "u1"}

ContainerHeads(names) ==
    UNION {[D -> ContainerValues] : D \in SUBSET names}

\* the name under which the store files a header of a request: header names
\* are case-insensitive and a stat returns them in lower case
StoredName ==
    ("X-Container-Read" :> "x-container-read")
      @@ ("X-Container-Write" :> "x-container-write")
      @@ [k \in ContainerHeaderNames |-> k]

\* the header list with every header of the source container
tgt_options_all(header) ==
    LET keys == SeqOf(DOMAIN header) IN
    [header |-> [i \in 1..Len(keys) |-> <<keys[i], header[keys[i]]>>]]

\* lines 417-424: tgt_options = {'header': header_list}
tgt_options(header) ==
    [header |->
       (IF "x-container-read" \in DOMAIN header
        THEN << <<"X-Container-Read", header["x-container-read"]>> >>
        ELSE << >>)
       \o (IF "x-container-write" \in DOMAIN header
           THEN << <<"X-Container-Write", header["x-container-write"]>> >>
           ELSE << >>)]

\* the headers of the container after a post with the options: the container
\* is created when it is missing, and the headers sent are set on it
PostContainer(before, options) ==
    LET sent == UploadHeaders(options.header)
        had == IF before = {} THEN EmptyDict ELSE CHOOSE h \in before : TRUE
    IN  [k \in {StoredName[n] : n \in DOMAIN sent} |->
            sent[CHOOSE n \in DOMAIN sent : StoredName[n] = k]] @@ had

ContainerInit ==
    /\ probe \in [at : {"listed"},
                  header : ContainerHeads(ContainerHeaderNames),
                  tgt : Opt(ContainerHeads(AclNames))]
    /\ plan = Idle
    /\ CopyIdle
    /\ WorkIdle
    /\ ReconIdle
    /\ SweepIdle
    /\ DupIdle
    /\ mt = Idle
    /\ wl = Idle

\* the target container is statted and, when the stat raises, posted with
\* the options; the stat raises when the container is missing, and it may
\* raise for another reason
EnsureTargetContainer ==
    /\ probe.at = "listed"
    /\ \E found \in {probe.tgt # {}, FALSE}, post_ok \in BOOLEAN :
         LET res == ensure_container("c1", found, post_ok) IN
         probe' = [at |-> "ensured", header |-> probe.header,
                   before |-> probe.tgt, found |-> found,
                   posted |-> IF found THEN {} ELSE {tgt_options(probe.header)},
                   tgt |-> IF res.created
                           THEN {PostContainer(probe.tgt, tgt_options(probe.header))}
                           ELSE probe.tgt]
    /\ UNCHANGED notDecide

ContainerNext == EnsureTargetContainer

SpecContainer == ContainerInit /\ [][ContainerNext]_vars

\* the headers x-container-read and x-container-write of the source
\* container, with the source's values
SourceAcls == [k \in DOMAIN probe.header \cap AclNames |-> probe.header[k]]

\* the headers a post sends, under their stored names
SentAs(options) == PostContainer({}, options)

SourceTruths ==
    UNION {[Range(ENV_REGIONS[env]) -> Opt(SUBSET ObjNames)] :
              env \in DOMAIN ENV_REGIONS}

\* the answers the stats of the container may get: a region that has the
\* container answers or raises SwiftError (it is out of reach, or refuses
\* the user), a region that does not have it raises SwiftError
ContainerAnswers(truth) ==
    {a \in [DOMAIN truth -> {"ok", "SwiftError"}] :
        \A r \in DOMAIN truth : a[r] = "ok" => truth[r] # {}}

\* the results the stats of the objects may have on the region's client: an
\* object the container holds succeeds or fails, another one fails
ObjectResults(held, objects) ==
    {res \in [objects -> BOOLEAN] : \A o \in objects : res[o] => o \in held}

\* lines 53-61: the region filed in container_map, the first one in the
\* order q whose stat does not raise; none when every stat raises
container_map(answers, q) ==
    LET hits == {k \in DOMAIN q : answers[q[k]] = "ok"} IN
    IF hits = {} THEN {} ELSE {q[CHOOSE k \in hits : \A j \in hits : k <= j]}

\* lines 31-36: the objects whose result is not a success
nonexistent_objects(results) == {o \in DOMAIN results : ~results[o]}

StatFaultsInit ==
    /\ probe \in [at : {"container"}, action : {"report", "delete"},
                  objects : SUBSET ObjNames, truth : SourceTruths]
    /\ plan = Idle
    /\ CopyIdle
    /\ WorkIdle
    /\ ReconIdle
    /\ SweepIdle
    /\ DupIdle
    /\ mt = Idle
    /\ wl = Idle

Orderings(S) ==
    {q \in [1..Cardinality(S) -> S] : \A j, k \in DOMAIN q : q[j] = q[k] => j = k}

\* check_container, lines 53-69: the regions are asked for the container;
\* when none answers it is reported and, with action delete, deleted
StatContainer ==
    /\ probe.at = "container"
    /\ \E answers \in ContainerAnswers(probe.truth),
          q \in Orderings(DOMAIN probe.truth) :
         LET region == container_map(answers, q) IN
         probe' = [at |-> IF region = {} THEN "nonexistent" ELSE "objects",
                   action |-> probe.action, objects |-> probe.objects,
                   truth |-> probe.truth, region |-> region,
                   deleted |-> IF region = {} /\ probe.action = "delete"
                               THEN {"container"} ELSE {}]
    /\ UNCHANGED notDecide

\* check_objects: the objects of the migration side are statted on the
\* region of container_map; the failing ones are reported and, with action
\* delete, deleted
StatObjects ==
    /\ probe.at = "objects"
    /\ \E results \in ObjectResults(UNION {UNION probe.truth[r] : r \in probe.region},
                                    probe.objects) :
         probe' = [probe EXCEPT
                     !.at = "checked",
                     !.deleted = IF probe.action = "delete"
                                 THEN nonexistent_objects(results) ELSE {}]
    /\ UNCHANGED notDecide

StatFaultsNext == StatContainer \/ StatObjects

SpecStatFaults == StatFaultsInit /\ [][StatFaultsNext]_vars

\* the objects the container holds on some source region
OnSource == UNION {UNION probe.truth[r] : r \in DOMAIN probe.truth}

\* C29 as claimed: with action delete the container of the migration side is
\* deleted only if no source region has it, and an object only if no source
\* region holds it, whatever stats of the source fail.
C29_DeletesOnlyTheAbsent ==
    probe.at \in {"nonexistent", "checked"} =>
        /\ "container" \in probe.deleted =>
              \A r \in DOMAIN probe.truth : probe.truth[r] = {}
        /\ \A o \in probe.deleted \cap ObjNames : o \notin OnSource


(***************************************************************************)
(* The source store during a copy                                          *)
(***************************************************************************)

\* C30: in every step of the copy of a tenant, whatever fails, the requests
\* sent to the source are lists, stats and downloads only, and the source's
\* containers and objects are as they were.
C30_SourceOnlyRead ==
    [][ /\ \A o \in mt'.ops : o.on = "src" => o.op \in {"list", "stat", "download"}
        /\ mt'.listing = mt.listing
        /\ mt'.objs = mt.objs ]_vars

\* a tenant has been copied to its end: a container was created on the
\* target and an object of it was downloaded from the source and uploaded
C30_Witness ==
    /\ mt.pc = "done"
    /\ \E c \in Range(mt.listing) : \E n \in mt.objs[c] :
          /\ Op("post", "tgt", c, {}) \in mt.ops
          /\ Op("download", "src", c, {n}) \in mt.ops
          /\ Op("upload", "tgt", c, {n}) \in mt.ops


(***************************************************************************)
(* Specification SpecAct: the try block of worker for one tenant, with the *)
(* clients it creates and the requests it sends to the two stores          *)
(***************************************************************************)

\* _get_service_clients creating the target client whatever the action
clients_of_both(args_act) == {"src_srvclient", "tgt_srvclient"}

\* the clients _get_service_clients returns other than None
clients_of(args_act) == {h[2] : h \in _get_service_clients(1, args_act)}

\* stat_tenant and _print_object_detail: the account is listed and, with
\* --verbose, every container seen is listed and its objects are statted
stat_tenant(store, verbose, seen) ==
    {Op("list", "src", << >>, {})}
      \cup (IF verbose
            THEN {Op("list", "src", c, {}) : c \in seen}
                   \cup UNION {{Op("stat", "src", c, {o}) : o \in store[c]}
                                 : c \in seen}
            ELSE {})

\* migrate_tenant: the account is listed and every container seen is statted
\* on both sides, posted on the target when missing there, and its objects
\* are statted on both sides, downloaded and uploaded
migrate_tenant(store, seen) ==
    {Op("list", "src", << >>, {})}
      \cup UNION {{Op("stat", "src", c, {}), Op("stat", "tgt", c, {}),
                   Op("post", "tgt", c, {})}
                    \cup source_requests(c, store[c], store[c])
                    \cup {Op("stat", "tgt", c, {o}) : o \in store[c]}
                    \cup {Op("upload", "tgt", c, {o}) : o \in store[c]}
                  : c \in seen}

ActInit ==
    /\ probe \in [at : {"tenant"}, act : {"stat", "copy"}, verbose : BOOLEAN,
                  store : Stores, clients : {{}}, ops : {{}},
                  effects : {{}}]
    /\ plan = Idle
    /\ CopyIdle
    /\ WorkIdle
    /\ ReconIdle
    /\ SweepIdle
    /\ DupIdle
    /\ mt = Idle
    /\ wl = Idle

\* lines 559-560: the clients of the tenant are created
GetServiceClients ==
    /\ probe.at = "tenant"
    /\ probe' = [probe EXCEPT !.at = "account",
                              !.clients = clients_of(probe.act)]
    /\ UNCHANGED notDecide

\* lines 562-580: the account stat, tenant_usage and the counters; a stat
\* that raises leaves the try block
AccountCounted ==
    /\ probe.at = "account"
    /\ \E ok \in BOOLEAN :
         probe' = [probe EXCEPT
                     !.at = IF ok THEN "act" ELSE "finally",
                     !.ops = @ \cup {Op("stat", "src", << >>, {})},
                     !.effects = IF ok THEN @ \cup {"tenant_usage", "stats"}
                                 ELSE @]
    /\ UNCHANGED notDecide

\* lines 582-584: stat_tenant returns, or raises after some containers
ActStat ==
    /\ probe.at = "act"
    /\ probe.act = "stat"
    /\ \E seen \in SUBSET DOMAIN probe.store :
         probe' = [probe EXCEPT
                     !.at = "finally",
                     !.ops = @ \cup stat_tenant(probe.store, probe.verbose, seen)]
    /\ UNCHANGED notDecide

\* lines 586-589: migrate_tenant returns, or raises after some containers
ActCopy ==
    /\ probe.at = "act"
    /\ probe.act = "copy"
    /\ "tgt_srvclient" \in probe.clients
    /\ \E seen \in SUBSET DOMAIN probe.store :
         probe' = [probe EXCEPT
                     !.at = "finally",
                     !.ops = @ \cup migrate_tenant(probe.store, seen)]
    /\ UNCHANGED notDecide

\* lines 595-598: the content is appended to the worker's file
WriteFile ==
    /\ probe.at = "finally"
    /\ probe' = [probe EXCEPT !.at = "next", !.effects = @ \cup {"file"}]
    /\ UNCHANGED notDecide

ActNext ==
    \/ GetServiceClients
    \/ AccountCounted
    \/ ActStat
    \/ ActCopy
    \/ WriteFile

SpecAct == ActInit /\ [][ActNext]_vars

ScheduleWorkers == {1, 2}

ScheduleTenants == {1, 2, 3}

\* the buckets of three tenants for two workers, and a bucket list that
\* names a tenant twice
ScheduleBuckets ==
    { << <<1, 2>>, <<3>> >>, << <<2>>, <<2>> >> }

\* main up to the start of the processes
ScheduleInit ==
    /\ probe = Idle
    /\ plan = Idle
    /\ CopyIdle
    /\ ReconIdle
    /\ SweepIdle
    /\ DupIdle
    /\ mt = Idle
    /\ wl = Idle
    /\ tenants_group \in ScheduleBuckets
    /\ wk = [w \in ScheduleWorkers |->
               [pc |-> "tenant", i |-> 0, f |-> 0, tmp |-> 0,
                open |-> {}, err |-> FALSE]]
    /\ act \in {"stat", "copy"}
    /\ account \in [ScheduleTenants -> AccountHeaders]
    /\ stats = ("cons" :> 0) @@ ("objs" :> 0) @@ ("bytes" :> 0)
    /\ tenant_usage = EmptyDict
    /\ lock = 0
    /\ statted = {}
    /\ main = "started"

\* the update raises and the lock stays with the worker
CounterRaisesHoldingLock ==
    \E w \in DOMAIN wk :
      /\ wk[w].pc \in {"read", "write"}
      /\ wk' = [wk EXCEPT ![w] =
                  [@ EXCEPT !.pc = "finally", !.err = TRUE, !.f = 0,
                            !.open = @ \ {<<wk[w].i, "src_srvclient">>}]]
      /\ UNCHANGED <<notWork, tenants_group, act, account, stats,
                     tenant_usage, lock, statted, main>>

\* stats[k] += int(account[...]) raises inside with lock: the with blocks
\* release the lock and src_srvclient, the except clause prints the error
CounterRaises ==
    \E w \in DOMAIN wk :
      /\ wk[w].pc \in {"read", "write"}
      /\ lock' = 0
      /\ wk' = [wk EXCEPT ![w] =
                  [@ EXCEPT !.pc = "finally", !.err = TRUE, !.f = 0,
                            !.open = @ \ {<<wk[w].i, "src_srvclient">>}]]
      /\ UNCHANGED <<notWork, tenants_group, act, account, stats,
                     tenant_usage, statted, main>>

ScheduleNext ==
    \/ StartTenant
    \/ AccountStat
    \/ AccountStatFails
    \/ WriteUsage
    \/ Acquire
    \/ ReadStat
    \/ WriteStat
    \/ CounterRaises
    \/ Release
    \/ StatTenant
    \/ MigrateTenant
    \/ Finally
    \/ WorkerEnds
    \/ Join

\* every store operation returns and every process is scheduled: a step that
\* can be taken is taken
SpecSchedule ==
    ScheduleInit /\ [][ScheduleNext]_vars /\ WF_vars(ScheduleNext)

\* the lock is held by the worker that is inside with lock, and by no other
LockWithHolder ==
    /\ lock # 0 => wk[lock].pc \in {"read", "write", "unlock"}
    /\ \A w \in ScheduleWorkers :
          wk[w].pc \in {"read", "write", "unlock"} => lock = w

\* a worker takes the tenants of its bucket one after the other, in order
InBucketOrder ==
    \A w \in ScheduleWorkers :
       /\ wk'[w].i \in {wk[w].i, wk[w].i + 1}
       /\ wk'[w].i = wk[w].i + 1 => wk[w].pc = "tenant" /\ wk'[w].pc = "stat"
       /\ wk'[w].pc = "done" => wk'[w].i = Len(tenants_group[w])

\* C32: every store operation returning, the lock is free again after every
\* update of the counters, also one that raises; a worker that waits for the
\* lock gets it; every worker takes the tenants of its bucket in order and
\* ends; and main gets past the joins, and only after every worker has ended.
C32_SchedulerTerminates ==
    /\ []LockWithHolder
    /\ \A w \in ScheduleWorkers : (wk[w].pc = "lock") ~> (wk[w].pc = "read")
    /\ \A w \in ScheduleWorkers : (wk[w].pc \in {"read", "write", "unlock"}) ~> (lock # w)
    /\ [][InBucketOrder]_vars
    /\ \A w \in ScheduleWorkers : <>(wk[w].pc = "done")
    /\ <>(main = "joined")
    /\ [](main = "joined" => \A w \in ScheduleWorkers : wk[w].pc = "done")

\* main has joined two workers after three tenants were counted, the update
\* for one of them having raised after the first counter
C32_Witness ==
    /\ main = "joined"
    /\ lock = 0
    /\ Len(tenants_group[1]) = 2
    /\ \A t \in ScheduleTenants : account[t] = AccountHeader(1, 2, 4)
    /\ Cardinality(statted) = 3
    /\ stats["cons"] = 3
    /\ stats["objs"] = 4
    /\ stats["bytes"] = 8

====
